---- MODULE Spec2Model ----
(***************************************************************************)
(* A model of the Kuiche scripts: cue-mode segmentation                    *)
(* (transcribe_video.py, youtube_download.py), sentence-mode segmentation  *)
(* (transcribe_audio.py) and the resilient batch translation               *)
(* (translate_srt.py).                                                     *)
(*                                                                         *)
(* Texts are sequences of one-character strings, so that strip, endswith,  *)
(* join and the decoder's regular expression are computed on characters.   *)
(* A character that a string of this module can hold stands for itself; a  *)
(* character that it cannot hold is written as the name of its code point  *)
(* ("U+0663" is the one character ARABIC-INDIC DIGIT THREE).               *)
(* Times are whole milliseconds: t stands for the float nearest to t/1000  *)
(* seconds that the source holds (0.8 s is 800, 0.7 s is 700). The pause   *)
(* test subtracts and compares floats, so it is computed with the rounding *)
(* error of each float (float_gap_exceeds): a gap of exactly 800 ms is     *)
(* above the threshold for some pairs of times and not for others.         *)
(***************************************************************************)
EXTENDS Integers, Sequences, FiniteSets, TLC

VARIABLES
    prog,            \* which script runs: "video", "youtube", "audio", "translate"
    pc,              \* position of the running function
    all_words,       \* the word stream returned by the recogniser
    i,               \* the loop index of the running for loop (0-based, as in the source)
    line_buffer,     \* cue mode: the buffered words (references: 0-based indices into all_words)
    srt_content,     \* cue mode: the cues written so far
    srt_counter,     \* cue mode: the number of the next cue
    sentence_buffer, \* sentence mode: the buffered word texts
    sentences,       \* sentence mode: the sentences closed so far
    run_buffer,      \* history: indices of the words in the open unit
    runs,            \* history: for each closed unit, the indices of its words
    subs,            \* translation: the subtitle texts, mutated in place
    orig,            \* history: the subtitle texts as read from the input file
    text_to_translate, \* translation: the payload of the current batch
    engine,          \* translation: number of engines tried for the batch (0-based position of the next attempt)
    batch_translated,\* translation: the flag of the current batch
    sub_index,       \* translation: per-entry fallback position (0-based)
    calls,           \* history: the translate calls of the current batch, in order
    saved,           \* translation: the texts written by subs.save, or <<>> before it
    sub_times,       \* translation: the start and end time of each subtitle entry
    events,          \* history: batch starts, translate calls and delays of the whole run, in order
    total_files,     \* main loop: the number of paths on the command line
    temp_audio_path, \* transcribe_video_final: the local of that name, "None" or the file's name
    temp_exists,     \* whether the scratch audio file exists on disk
    outcomes,        \* history: how the call for each file ended, in order
    ts_in,           \* format_timestamp: the argument, in milliseconds
    ts_out,          \* format_timestamp: the string returned, or <<>>
    current_paragraph, \* paragraph grouping: the buffered sentences
    paragraphs,      \* paragraph grouping: the paragraphs closed so far
    response_block,        \* decoder: the response handed to the parsing loop
    translated_lines_dict  \* decoder: the mapping built from it

vars == <<prog, pc, all_words, i, line_buffer, srt_content, srt_counter,
          sentence_buffer, sentences, run_buffer, runs, subs, orig,
          text_to_translate, engine, batch_translated, sub_index, calls,
          saved, sub_times, events, total_files, temp_audio_path, temp_exists, outcomes,
          ts_in, ts_out, current_paragraph, paragraphs, response_block,
          translated_lines_dict>>

segVars == <<all_words, i, line_buffer, srt_content, srt_counter,
             sentence_buffer, sentences, run_buffer, runs>>

trVars == <<subs, orig, text_to_translate, engine, batch_translated,
            sub_index, calls, saved, sub_times, events>>

fileVars == <<total_files, temp_audio_path, temp_exists, outcomes>>

fmtVars == <<ts_in, ts_out>>

decVars == <<response_block, translated_lines_dict>>

parVars == <<current_paragraph, paragraphs>>

\* the values of the variables of the file loop, of format_timestamp and of the
\* paragraph grouping while another part of the program runs
FilesIdle ==
    /\ total_files = 0
    /\ temp_audio_path = "None"
    /\ temp_exists = FALSE
    /\ outcomes = <<>>

FormatIdle == ts_in = 0 /\ ts_out = <<>>

DecoderIdle == response_block = <<>> /\ translated_lines_dict = <<>>

ParagraphsIdle == current_paragraph = <<>> /\ paragraphs = <<>>

----------------------------------------------------------------------------
(* Bounds of the model *)

\* the longest word stream the recogniser returns
MaxWords == 4

\* the most entries a subtitle file holds
MaxSubs == 3

----------------------------------------------------------------------------
(* Characters and strings *)

\* the characters that str.strip() with no argument removes and that \s of the
\* decoder's pattern matches (the two sets are the same): U+0009..U+000D,
\* U+001C..U+0020, U+0085, U+00A0, U+1680, U+2000..U+200A, U+2028, U+2029,
\* U+202F, U+205F and U+3000
Whitespace ==
    {"\t", "\n", "", "\f", "\r", "", "", "", "", " ", "", " ", " ",
     "U+2000", "U+2001", "U+2002", "U+2003", "U+2004", "U+2005", "U+2006",
     "U+2007", "U+2008", "U+2009", "U+200A", "U+2028", "U+2029", "U+202F",
     "U+205F", "U+3000"}

IsSpace(c) == c \in Whitespace

RECURSIVE lstrip(_)
lstrip(s) ==
    IF s = <<>> THEN <<>>
    ELSE IF IsSpace(Head(s)) THEN lstrip(Tail(s)) ELSE s

RECURSIVE rstrip(_)
rstrip(s) ==
    IF s = <<>> THEN <<>>
    ELSE IF IsSpace(s[Len(s)]) THEN rstrip(SubSeq(s, 1, Len(s) - 1)) ELSE s

strip(s) == rstrip(lstrip(s))

\* the tuple given to str.endswith in both segmentation loops
TerminalPunctuation == {".", "?", "!"}

\* the full stop forgotten in the tuple
endswith_mutant(s) == s # <<>> /\ s[Len(s)] \in {"?", "!"}

\* s.endswith(('.', '?', '!'))
endswith(s) == s # <<>> /\ s[Len(s)] \in TerminalPunctuation

\* sep.join(list)
RECURSIVE join(_, _)
join(sep, list) ==
    IF list = <<>> THEN <<>>
    ELSE IF Len(list) = 1 THEN list[1]
    ELSE list[1] \o sep \o join(sep, Tail(list))

\* 0, 1, ..., n-1
Indices(n) == [k \in 1..n |-> k - 1]

RECURSIVE Flatten(_)
Flatten(ss) == IF ss = <<>> THEN <<>> ELSE Head(ss) \o Flatten(Tail(ss))

----------------------------------------------------------------------------
(* format_timestamp *)

\* the hours of divmod dropped
format_timestamp_mutant(ms) ==
    LET r1           == ms % 3600000
        minutes      == r1 \div 60000
        r2           == r1 % 60000
        seconds      == r2 \div 1000
        milliseconds == r2 % 1000
    IN [hours |-> 0, minutes |-> minutes, seconds |-> seconds,
        milliseconds |-> milliseconds]

\* the fields of HH:MM:SS,mmm for a time of ms milliseconds
\* (round(seconds * 1000.0) is ms itself at whole milliseconds)
format_timestamp(ms) ==
    LET hours        == ms \div 3600000
        r1           == ms % 3600000
        minutes      == r1 \div 60000
        r2           == r1 % 60000
        seconds      == r2 \div 1000
        milliseconds == r2 % 1000
    IN [hours |-> hours, minutes |-> minutes, seconds |-> seconds,
        milliseconds |-> milliseconds]

\* the time a timecode denotes, in milliseconds
TimecodeMs(t) ==
    t.hours * 3600000 + t.minutes * 60000 + t.seconds * 1000 + t.milliseconds

----------------------------------------------------------------------------
(* The word streams *)

ShortWord    == <<" ", "u", "m">>
PunctWord    == <<" ", "o", "k", ".">>
QuestionWord == <<" ", "e", "h", "?">>
ExclaimWord  == <<" ", "n", "o", "!">>
LongWord     == <<" ">> \o [k \in 1..46 |-> "a"]

\* the words of one stream: a short word, a long word and a word ending in
\* one of the three terminal punctuation marks
Vocabularies ==
    {{ShortWord, LongWord, PunctWord},
     {ShortWord, LongWord, QuestionWord},
     {ShortWord, LongWord, ExclaimWord}}

WordTexts == UNION Vocabularies

\* the first word starts at 59:59,000, so that streams cross the hour
FirstStarts == {3599000}

\* a word lasts 300 ms
WordDurations == {300}

\* start of a word minus start of the word before it: overlapping the word
\* before, 800 ms after its end, 900 ms after its end
StartDeltas == {100, 1100, 1200}

\* deltas[1] + ... + deltas[k]
RECURSIVE SumTo(_, _)
SumTo(deltas, k) == IF k = 0 THEN 0 ELSE SumTo(deltas, k - 1) + deltas[k]

\* the stream of the words with these texts, the first starting at first, each
\* later one starting deltas[k-1] after the one before it, word k lasting durs[k]
StreamOf(texts, first, deltas, durs) ==
    [k \in 1..Len(texts) |->
        [word  |-> texts[k],
         start |-> first + SumTo(deltas, k - 1),
         end   |-> first + SumTo(deltas, k - 1) + durs[k]]]

\* w is a stream of 1..MaxWords words: non-decreasing start, end >= start
IsWordStream(w) ==
    \E n \in 1..MaxWords : \E voc \in Vocabularies :
        \E texts \in [1..n -> voc] : \E first \in FirstStarts :
            \E deltas \in [1..(n - 1) -> StartDeltas] :
                \E durs \in [1..n -> WordDurations] :
                    w = StreamOf(texts, first, deltas, durs)

\* all_words[k] of the source, k 0-based
Word(k) == all_words[k + 1]

----------------------------------------------------------------------------
(* The float arithmetic of the pause test *)

\* the binary exponent of the float of t milliseconds, 0 < t < 32768000:
\* the e with 2^e <= t/1000 < 2^(e+1)
float_exponent(t) ==
    CHOOSE e \in -10..14 :
        IF e >= 0
        THEN 1000 * 2^e <= t /\ t < 1000 * 2^(e + 1)
        ELSE t < 1000 /\ 2^(-e) * t >= 1000 /\ 2^(-e - 1) * t < 1000

\* 2^n modulo 125 for n <= 60, computed without leaving the 32-bit integers
Pow2Mod125(n) == ((2^(n \div 2) % 125) * (2^(n - n \div 2) % 125)) % 125

\* float(t/1000) - t/1000 in units of 2^-59 / 1000 seconds. The float is the
\* multiple of 2^(e-52) nearest to t/1000. In steps of 2^(e-52), t/1000 lies
\* q/125 above a whole multiple, with q = (t * 2^(49-e)) mod 125: the float is
\* that multiple when q <= 62 and the next one otherwise (q/125 is never 1/2).
float_error(t) ==
    IF t = 0 THEN 0
    ELSE LET e == float_exponent(t)
             q == ((t % 125) * Pow2Mod125(49 - e)) % 125
         IN (IF q <= 62 THEN -q ELSE 125 - q) * 2^(e + 10)

\* a - b > th as the source evaluates it on floats, for the times a and b and
\* the threshold th (700 or 800) in milliseconds. Away from the threshold the
\* rounding errors (below 10^-11 s) do not decide. At a - b = th the
\* difference of the two floats is rounded to a multiple of 2^-53 (32000 units
\* are half of that step, and a tie goes to the threshold's float, whose last
\* bit is 0 for 0.7 and for 0.8) and compared with the float of the threshold.
float_gap_exceeds(a, b, th) ==
    IF a - b # th THEN a - b > th
    ELSE float_error(a) - float_error(b) - float_error(th) > 32000

----------------------------------------------------------------------------
(* Cue-mode segmentation: the loop of transcribe_video_final *)

max_chars == 45

\* max_pause_duration of cue mode, 0.8 s
max_pause_duration_cue == 800

\* " ".join([w.word.strip() for w in line_buffer])
BufferText(buf) == join(<<" ">>, [k \in 1..Len(buf) |-> strip(Word(buf[k]).word)])

\* transcribe_video.py: for j in range(1, 4): if (i + j) < len(all_words) ...
found_punctuation_ahead(k) ==
    \E j \in 1..3 : (k + j) < Len(all_words) /\ endswith(strip(Word(k + j).word))

\* the slice all_words[i+1:i+3], one word short
any_punctuation_in_short_slice(k) ==
    LET slice == SubSeq(all_words, k + 2,
                        IF k + 3 < Len(all_words) THEN k + 3 ELSE Len(all_words))
    IN \E n \in 1..Len(slice) : endswith(strip(slice[n].word))

\* youtube_download.py: any(... for w in all_words[i+1:i+4])
any_punctuation_in_slice(k) ==
    LET slice == SubSeq(all_words, k + 2,
                        IF k + 4 < Len(all_words) THEN k + 4 ELSE Len(all_words))
    IN \E n \in 1..Len(slice) : endswith(strip(slice[n].word))

PunctuationAhead(k) ==
    IF prog = "video" THEN found_punctuation_ahead(k) ELSE any_punctuation_in_slice(k)

is_last_word_overall(k) == k = Len(all_words) - 1

\* the lookahead forgotten: a long buffer always breaks
should_break_mutant(k, buf) ==
    IF endswith(strip(Word(k).word)) THEN TRUE
    ELSE IF ~is_last_word_overall(k)
            /\ float_gap_exceeds(Word(k + 1).start, Word(k).end,
                                 max_pause_duration_cue) THEN TRUE
    ELSE IF Len(BufferText(buf)) > max_chars THEN TRUE
    ELSE FALSE

\* the pause rule forgotten
should_break_without_pause(k, buf) ==
    IF endswith(strip(Word(k).word)) THEN TRUE
    ELSE IF Len(BufferText(buf)) > max_chars THEN ~PunctuationAhead(k)
    ELSE FALSE

\* should_break after the if / elif / elif chain, for word k with the buffer buf
should_break(k, buf) ==
    IF endswith(strip(Word(k).word)) THEN TRUE
    ELSE IF ~is_last_word_overall(k)
            /\ float_gap_exceeds(Word(k + 1).start, Word(k).end,
                                 max_pause_duration_cue) THEN TRUE
    ELSE IF Len(BufferText(buf)) > max_chars THEN ~PunctuationAhead(k)
    ELSE FALSE

\* if is_last_word_overall or should_break
closes_cue_mutant(k, buf) == should_break(k, buf)

closes_cue(k, buf) == is_last_word_overall(k) \/ should_break(k, buf)

\* the cue written for the buffer buf
Cue(buf) ==
    [index |-> srt_counter,
     start_time |-> format_timestamp(Word(buf[1]).start),
     end_time |-> format_timestamp(Word(buf[Len(buf)]).end),
     text |-> BufferText(buf)]

InitCue ==
    /\ prog \in {"video", "youtube"}
    /\ pc = "loop"
    /\ IsWordStream(all_words)
    /\ i = 0
    /\ line_buffer = <<>>
    /\ srt_content = <<>>
    /\ srt_counter = 1
    /\ sentence_buffer = <<>>
    /\ sentences = <<>>
    /\ run_buffer = <<>>
    /\ runs = <<>>
    /\ subs = <<>>
    /\ orig = <<>>
    /\ text_to_translate = <<>>
    /\ engine = 0
    /\ batch_translated = FALSE
    /\ sub_index = 0
    /\ calls = <<>>
    /\ saved = <<>>
    /\ events = <<>>
    /\ sub_times = <<>>
    /\ FilesIdle
    /\ FormatIdle
    /\ DecoderIdle
    /\ ParagraphsIdle

\* one iteration that ends with a cue written
CueBreak ==
    /\ pc = "loop"
    /\ i < Len(all_words)
    /\ LET buf == Append(line_buffer, i)
       IN /\ closes_cue(i, buf)
          /\ srt_content' = Append(srt_content, Cue(buf))
          /\ runs' = Append(runs, buf)
          /\ srt_counter' = srt_counter + 1
          /\ line_buffer' = <<>>
    /\ i' = i + 1
    /\ UNCHANGED <<prog, pc, all_words, sentence_buffer, sentences, run_buffer>>
    /\ UNCHANGED <<trVars, fileVars, fmtVars, decVars, parVars>>

\* one iteration that keeps the word in the buffer
CueKeep ==
    /\ pc = "loop"
    /\ i < Len(all_words)
    /\ LET buf == Append(line_buffer, i)
       IN /\ ~closes_cue(i, buf)
          /\ line_buffer' = buf
    /\ i' = i + 1
    /\ UNCHANGED <<prog, pc, all_words, srt_content, srt_counter,
                   sentence_buffer, sentences, run_buffer, runs>>
    /\ UNCHANGED <<trVars, fileVars, fmtVars, decVars, parVars>>

\* the loop is over
CueEnd ==
    /\ pc = "loop"
    /\ i = Len(all_words)
    /\ pc' = "done"
    /\ UNCHANGED <<prog, segVars>>
    /\ UNCHANGED <<trVars, fileVars, fmtVars, decVars, parVars>>

NextCue == CueBreak \/ CueKeep \/ CueEnd

SpecCue == InitCue /\ [][NextCue]_vars

----------------------------------------------------------------------------
(* Sentence-mode segmentation: the loop of transcribe_audio *)

\* max_pause_duration of sentence mode, 0.7 s
max_pause_duration_sentence == 700

is_last_word(k) == k = Len(all_words) - 1

\* all_words[i+1].start if not is_last_word else 0
next_word_starts_at(k) == IF ~is_last_word(k) THEN Word(k + 1).start ELSE 0

ends_sentence_mutant(k) ==
    \/ endswith(strip(Word(k).word))
    \/ (~is_last_word(k)
        /\ float_gap_exceeds(next_word_starts_at(k), Word(k).end,
                             max_pause_duration_sentence))

\* the condition that ends a sentence at word k
ends_sentence(k) ==
    \/ endswith(strip(Word(k).word))
    \/ (~is_last_word(k)
        /\ float_gap_exceeds(next_word_starts_at(k), Word(k).end,
                             max_pause_duration_sentence))
    \/ is_last_word(k)

\* "".join(sentence_buffer) without the strip
Sentence_unstripped(buf) == join(<<>>, buf)

\* "".join(sentence_buffer).strip()
Sentence(buf) == strip(join(<<>>, buf))

\* the word texts Hello, world., Next, sentence as written, and as the
\* recogniser delivers words, each with its leading space
BareTexts == <<<<"H", "e", "l", "l", "o">>,
               <<"w", "o", "r", "l", "d", ".">>,
               <<"N", "e", "x", "t">>,
               <<"s", "e", "n", "t", "e", "n", "c", "e">>>>

SpacedTexts == [k \in 1..Len(BareTexts) |-> <<" ">> \o BareTexts[k]]

\* the stream (Hello, 0, 0.4), (world., 0.5, 0.9), (Next, 2.0, 2.3),
\* (sentence, 2.3, 2.6) with the given word texts
HelloWorldStream(texts) ==
    <<[word |-> texts[1], start |-> 0, end |-> 400],
      [word |-> texts[2], start |-> 500, end |-> 900],
      [word |-> texts[3], start |-> 2000, end |-> 2300],
      [word |-> texts[4], start |-> 2300, end |-> 2600]>>

InitSentence ==
    /\ prog = "audio"
    /\ pc = "loop"
    /\ \/ IsWordStream(all_words)
       \/ all_words \in {HelloWorldStream(BareTexts), HelloWorldStream(SpacedTexts)}
    /\ i = 0
    /\ line_buffer = <<>>
    /\ srt_content = <<>>
    /\ srt_counter = 1
    /\ sentence_buffer = <<>>
    /\ sentences = <<>>
    /\ run_buffer = <<>>
    /\ runs = <<>>
    /\ subs = <<>>
    /\ orig = <<>>
    /\ text_to_translate = <<>>
    /\ engine = 0
    /\ batch_translated = FALSE
    /\ sub_index = 0
    /\ calls = <<>>
    /\ saved = <<>>
    /\ events = <<>>
    /\ sub_times = <<>>
    /\ FilesIdle
    /\ FormatIdle
    /\ DecoderIdle
    /\ ParagraphsIdle

\* one iteration that closes the sentence
SentenceClose ==
    /\ pc = "loop"
    /\ i < Len(all_words)
    /\ ends_sentence(i)
    /\ sentences' = Append(sentences, Sentence(Append(sentence_buffer, Word(i).word)))
    /\ sentence_buffer' = <<>>
    /\ runs' = Append(runs, Append(run_buffer, i))
    /\ run_buffer' = <<>>
    /\ i' = i + 1
    /\ UNCHANGED <<prog, pc, all_words, line_buffer, srt_content, srt_counter>>
    /\ UNCHANGED <<trVars, fileVars, fmtVars, decVars, parVars>>

\* one iteration that keeps the word in the buffer
SentenceKeep ==
    /\ pc = "loop"
    /\ i < Len(all_words)
    /\ ~ends_sentence(i)
    /\ sentence_buffer' = Append(sentence_buffer, Word(i).word)
    /\ run_buffer' = Append(run_buffer, i)
    /\ i' = i + 1
    /\ UNCHANGED <<prog, pc, all_words, line_buffer, srt_content, srt_counter,
                   sentences, runs>>
    /\ UNCHANGED <<trVars, fileVars, fmtVars, decVars, parVars>>

\* the loop is over
SentenceEnd ==
    /\ pc = "loop"
    /\ i = Len(all_words)
    /\ pc' = "done"
    /\ UNCHANGED <<prog, segVars>>
    /\ UNCHANGED <<trVars, fileVars, fmtVars, decVars, parVars>>

NextSentence == SentenceClose \/ SentenceKeep \/ SentenceEnd

SpecSentence == InitSentence /\ [][NextSentence]_vars

----------------------------------------------------------------------------
(* Both segmentation loops: one run of either script *)

InitSegmentation == InitCue \/ InitSentence

NextSegmentation ==
    \/ (prog \in {"video", "youtube"} /\ NextCue)
    \/ (prog = "audio" /\ NextSentence)

SpecSegmentation == InitSegmentation /\ [][NextSegmentation]_vars

----------------------------------------------------------------------------
(* Resilient batch translation: translate_srt_file_resilient *)

\* the batch_size argument (20 by default in the source)
batch_size == 2

translation_engines == <<"google", "bing">>

\* the engine of the per-entry fallback
fallback_engine == "google"

\* the digits that str() writes
DigitChars == <<"0", "1", "2", "3", "4", "5", "6", "7", "8", "9">>

\* the decimal digits (category Nd) that \d of the decoder's pattern matches
\* and int() reads: one row for each script, the digits 0 to 9 in order; the
\* first row holds the ASCII digits
DigitBlocks == <<
    <<"0", "1", "2", "3", "4", "5", "6", "7", "8", "9">>,
    <<"U+0660", "U+0661", "U+0662", "U+0663", "U+0664", "U+0665", "U+0666", "U+0667", "U+0668", "U+0669">>,
    <<"۰", "۱", "۲", "۳", "۴", "۵", "۶", "۷", "۸", "۹">>,
    <<"߀", "߁", "߂", "߃", "߄", "߅", "߆", "߇", "߈", "߉">>,
    <<"U+0966", "U+0967", "U+0968", "U+0969", "U+096A", "U+096B", "U+096C", "U+096D", "U+096E", "U+096F">>,
    <<"০", "১", "২", "৩", "৪", "৫", "৬", "৭", "৮", "৯">>,
    <<"U+0A66", "U+0A67", "U+0A68", "U+0A69", "U+0A6A", "U+0A6B", "U+0A6C", "U+0A6D", "U+0A6E", "U+0A6F">>,
    <<"૦", "૧", "૨", "૩", "૪", "૫", "૬", "૭", "૮", "૯">>,
    <<"U+0B66", "U+0B67", "U+0B68", "U+0B69", "U+0B6A", "U+0B6B", "U+0B6C", "U+0B6D", "U+0B6E", "U+0B6F">>,
    <<"௦", "௧", "௨", "௩", "௪", "௫", "௬", "௭", "௮", "௯">>,
    <<"U+0C66", "U+0C67", "U+0C68", "U+0C69", "U+0C6A", "U+0C6B", "U+0C6C", "U+0C6D", "U+0C6E", "U+0C6F">>,
    <<"೦", "೧", "೨", "೩", "೪", "೫", "೬", "೭", "೮", "೯">>,
    <<"U+0D66", "U+0D67", "U+0D68", "U+0D69", "U+0D6A", "U+0D6B", "U+0D6C", "U+0D6D", "U+0D6E", "U+0D6F">>,
    <<"෦", "෧", "෨", "෩", "෪", "෫", "෬", "෭", "෮", "෯">>,
    <<"U+0E50", "U+0E51", "U+0E52", "U+0E53", "U+0E54", "U+0E55", "U+0E56", "U+0E57", "U+0E58", "U+0E59">>,
    <<"໐", "໑", "໒", "໓", "໔", "໕", "໖", "໗", "໘", "໙">>,
    <<"U+0F20", "U+0F21", "U+0F22", "U+0F23", "U+0F24", "U+0F25", "U+0F26", "U+0F27", "U+0F28", "U+0F29">>,
    <<"U+1040", "U+1041", "U+1042", "U+1043", "U+1044", "U+1045", "U+1046", "U+1047", "U+1048", "U+1049">>,
    <<"႐", "႑", "႒", "႓", "႔", "႕", "႖", "႗", "႘", "႙">>,
    <<"០", "១", "២", "៣", "៤", "៥", "៦", "៧", "៨", "៩">>,
    <<"U+1810", "U+1811", "U+1812", "U+1813", "U+1814", "U+1815", "U+1816", "U+1817", "U+1818", "U+1819">>,
    <<"U+1946", "U+1947", "U+1948", "U+1949", "U+194A", "U+194B", "U+194C", "U+194D", "U+194E", "U+194F">>,
    <<"᧐", "᧑", "᧒", "᧓", "᧔", "᧕", "᧖", "᧗", "᧘", "᧙">>,
    <<"᪀", "᪁", "᪂", "᪃", "᪄", "᪅", "᪆", "᪇", "᪈", "᪉">>,
    <<"᪐", "᪑", "᪒", "᪓", "᪔", "᪕", "᪖", "᪗", "᪘", "᪙">>,
    <<"U+1B50", "U+1B51", "U+1B52", "U+1B53", "U+1B54", "U+1B55", "U+1B56", "U+1B57", "U+1B58", "U+1B59">>,
    <<"᮰", "᮱", "᮲", "᮳", "᮴", "᮵", "᮶", "᮷", "᮸", "᮹">>,
    <<"U+1C40", "U+1C41", "U+1C42", "U+1C43", "U+1C44", "U+1C45", "U+1C46", "U+1C47", "U+1C48", "U+1C49">>,
    <<"U+1C50", "U+1C51", "U+1C52", "U+1C53", "U+1C54", "U+1C55", "U+1C56", "U+1C57", "U+1C58", "U+1C59">>,
    <<"U+A620", "U+A621", "U+A622", "U+A623", "U+A624", "U+A625", "U+A626", "U+A627", "U+A628", "U+A629">>,
    <<"꣐", "꣑", "꣒", "꣓", "꣔", "꣕", "꣖", "꣗", "꣘", "꣙">>,
    <<"U+A900", "U+A901", "U+A902", "U+A903", "U+A904", "U+A905", "U+A906", "U+A907", "U+A908", "U+A909">>,
    <<"꧐", "꧑", "꧒", "꧓", "꧔", "꧕", "꧖", "꧗", "꧘", "꧙">>,
    <<"꧰", "꧱", "꧲", "꧳", "꧴", "꧵", "꧶", "꧷", "꧸", "꧹">>,
    <<"U+AA50", "U+AA51", "U+AA52", "U+AA53", "U+AA54", "U+AA55", "U+AA56", "U+AA57", "U+AA58", "U+AA59">>,
    <<"꯰", "꯱", "꯲", "꯳", "꯴", "꯵", "꯶", "꯷", "꯸", "꯹">>,
    <<"U+FF10", "U+FF11", "U+FF12", "U+FF13", "U+FF14", "U+FF15", "U+FF16", "U+FF17", "U+FF18", "U+FF19">>,
    <<"U+104A0", "U+104A1", "U+104A2", "U+104A3", "U+104A4", "U+104A5", "U+104A6", "U+104A7", "U+104A8", "U+104A9">>,
    <<"U+10D30", "U+10D31", "U+10D32", "U+10D33", "U+10D34", "U+10D35", "U+10D36", "U+10D37", "U+10D38", "U+10D39">>,
    <<"U+11066", "U+11067", "U+11068", "U+11069", "U+1106A", "U+1106B", "U+1106C", "U+1106D", "U+1106E", "U+1106F">>,
    <<"U+110F0", "U+110F1", "U+110F2", "U+110F3", "U+110F4", "U+110F5", "U+110F6", "U+110F7", "U+110F8", "U+110F9">>,
    <<"U+11136", "U+11137", "U+11138", "U+11139", "U+1113A", "U+1113B", "U+1113C", "U+1113D", "U+1113E", "U+1113F">>,
    <<"U+111D0", "U+111D1", "U+111D2", "U+111D3", "U+111D4", "U+111D5", "U+111D6", "U+111D7", "U+111D8", "U+111D9">>,
    <<"U+112F0", "U+112F1", "U+112F2", "U+112F3", "U+112F4", "U+112F5", "U+112F6", "U+112F7", "U+112F8", "U+112F9">>,
    <<"U+11450", "U+11451", "U+11452", "U+11453", "U+11454", "U+11455", "U+11456", "U+11457", "U+11458", "U+11459">>,
    <<"U+114D0", "U+114D1", "U+114D2", "U+114D3", "U+114D4", "U+114D5", "U+114D6", "U+114D7", "U+114D8", "U+114D9">>,
    <<"U+11650", "U+11651", "U+11652", "U+11653", "U+11654", "U+11655", "U+11656", "U+11657", "U+11658", "U+11659">>,
    <<"U+116C0", "U+116C1", "U+116C2", "U+116C3", "U+116C4", "U+116C5", "U+116C6", "U+116C7", "U+116C8", "U+116C9">>,
    <<"U+11730", "U+11731", "U+11732", "U+11733", "U+11734", "U+11735", "U+11736", "U+11737", "U+11738", "U+11739">>,
    <<"U+118E0", "U+118E1", "U+118E2", "U+118E3", "U+118E4", "U+118E5", "U+118E6", "U+118E7", "U+118E8", "U+118E9">>,
    <<"U+11950", "U+11951", "U+11952", "U+11953", "U+11954", "U+11955", "U+11956", "U+11957", "U+11958", "U+11959">>,
    <<"U+11C50", "U+11C51", "U+11C52", "U+11C53", "U+11C54", "U+11C55", "U+11C56", "U+11C57", "U+11C58", "U+11C59">>,
    <<"U+11D50", "U+11D51", "U+11D52", "U+11D53", "U+11D54", "U+11D55", "U+11D56", "U+11D57", "U+11D58", "U+11D59">>,
    <<"U+11DA0", "U+11DA1", "U+11DA2", "U+11DA3", "U+11DA4", "U+11DA5", "U+11DA6", "U+11DA7", "U+11DA8", "U+11DA9">>,
    <<"U+16A60", "U+16A61", "U+16A62", "U+16A63", "U+16A64", "U+16A65", "U+16A66", "U+16A67", "U+16A68", "U+16A69">>,
    <<"U+16AC0", "U+16AC1", "U+16AC2", "U+16AC3", "U+16AC4", "U+16AC5", "U+16AC6", "U+16AC7", "U+16AC8", "U+16AC9">>,
    <<"U+16B50", "U+16B51", "U+16B52", "U+16B53", "U+16B54", "U+16B55", "U+16B56", "U+16B57", "U+16B58", "U+16B59">>,
    <<"U+1D7CE", "U+1D7CF", "U+1D7D0", "U+1D7D1", "U+1D7D2", "U+1D7D3", "U+1D7D4", "U+1D7D5", "U+1D7D6", "U+1D7D7">>,
    <<"U+1D7D8", "U+1D7D9", "U+1D7DA", "U+1D7DB", "U+1D7DC", "U+1D7DD", "U+1D7DE", "U+1D7DF", "U+1D7E0", "U+1D7E1">>,
    <<"U+1D7E2", "U+1D7E3", "U+1D7E4", "U+1D7E5", "U+1D7E6", "U+1D7E7", "U+1D7E8", "U+1D7E9", "U+1D7EA", "U+1D7EB">>,
    <<"U+1D7EC", "U+1D7ED", "U+1D7EE", "U+1D7EF", "U+1D7F0", "U+1D7F1", "U+1D7F2", "U+1D7F3", "U+1D7F4", "U+1D7F5">>,
    <<"U+1D7F6", "U+1D7F7", "U+1D7F8", "U+1D7F9", "U+1D7FA", "U+1D7FB", "U+1D7FC", "U+1D7FD", "U+1D7FE", "U+1D7FF">>,
    <<"U+1E140", "U+1E141", "U+1E142", "U+1E143", "U+1E144", "U+1E145", "U+1E146", "U+1E147", "U+1E148", "U+1E149">>,
    <<"U+1E2F0", "U+1E2F1", "U+1E2F2", "U+1E2F3", "U+1E2F4", "U+1E2F5", "U+1E2F6", "U+1E2F7", "U+1E2F8", "U+1E2F9">>,
    <<"U+1E950", "U+1E951", "U+1E952", "U+1E953", "U+1E954", "U+1E955", "U+1E956", "U+1E957", "U+1E958", "U+1E959">>,
    <<"U+1FBF0", "U+1FBF1", "U+1FBF2", "U+1FBF3", "U+1FBF4", "U+1FBF5", "U+1FBF6", "U+1FBF7", "U+1FBF8", "U+1FBF9">>>>

DigitSet == UNION {{DigitBlocks[b][d] : d \in 1..10} : b \in 1..Len(DigitBlocks)}

\* int() of one digit: its place in the row of its script
DigitValues ==
    [c \in DigitSet |->
        (CHOOSE d \in 1..10 : \E b \in 1..Len(DigitBlocks) : DigitBlocks[b][d] = c) - 1]

\* \d of the decoder's pattern
IsDigit(c) == c \in DigitSet

DigitValue(c) == DigitValues[c]

\* str(n) for n >= 0
RECURSIVE Str(_)
Str(n) == IF n < 10 THEN <<DigitChars[n + 1]>>
          ELSE Str(n \div 10) \o <<DigitChars[(n % 10) + 1]>>

\* int(s) for a string of digits
RECURSIVE int(_)
int(s) == IF s = <<>> THEN 0
          ELSE int(SubSeq(s, 1, Len(s) - 1)) * 10 + DigitValue(s[Len(s)])

\* s.split('\n')
RECURSIVE split_lines(_)
split_lines(s) ==
    IF \A k \in 1..Len(s) : s[k] # "\n" THEN <<s>>
    ELSE LET k == CHOOSE k \in 1..Len(s) :
                    s[k] = "\n" /\ \A m \in 1..(k - 1) : s[m] # "\n"
         IN <<SubSeq(s, 1, k - 1)>> \o split_lines(SubSeq(s, k + 1, Len(s)))

\* the longest prefix of digits
RECURSIVE leading_digits(_)
leading_digits(s) ==
    IF s = <<>> \/ ~IsDigit(Head(s)) THEN <<>>
    ELSE <<Head(s)>> \o leading_digits(Tail(s))

\* the character class [_>.:-] of the pattern
Separators == {"_", ">", ".", ":", "-"}

\* pattern.match(line) for r'^\s*(\d+)\s*[_>.:-]\s*(.*)': the class matches one
\* character, and every repetition is greedy with nothing to give back
pattern_match(line) ==
    LET a      == lstrip(line)
        digits == leading_digits(a)
        b      == lstrip(SubSeq(a, Len(digits) + 1, Len(a)))
    IN IF digits = <<>> \/ b = <<>> \/ Head(b) \notin Separators
       THEN [matched |-> FALSE, group1 |-> <<>>, group2 |-> <<>>]
       ELSE [matched |-> TRUE, group1 |-> digits, group2 |-> lstrip(Tail(b))]

\* dict[k] = v
DictPut(dict, k, v) ==
    [x \in (DOMAIN dict) \cup {k} |-> IF x = k THEN v ELSE dict[x]]

EmptyDict == [x \in {} |-> <<>>]

\* the parsing loop over the lines and the save that follows it
RECURSIVE parse_lines(_, _, _, _)
parse_lines(lines, dict, current_index, current_text_lines) ==
    IF lines = <<>>
    THEN IF current_index # -1
         THEN DictPut(dict, current_index, strip(join(<<"\n">>, current_text_lines)))
         ELSE dict
    ELSE LET line  == Head(lines)
             match == pattern_match(line)
         IN IF match.matched
            THEN parse_lines(Tail(lines),
                             IF current_index # -1
                             THEN DictPut(dict, current_index,
                                          strip(join(<<"\n">>, current_text_lines)))
                             ELSE dict,
                             int(match.group1),
                             <<strip(match.group2)>>)
            ELSE IF current_index # -1
            THEN parse_lines(Tail(lines), dict, current_index,
                             Append(current_text_lines, strip(line)))
            ELSE parse_lines(Tail(lines), dict, current_index, current_text_lines)

\* current_index initialised to 0 in place of -1
decode_from_zero(translated_block) == parse_lines(split_lines(translated_block), EmptyDict, 0, <<>>)

\* translated_lines_dict for the response translated_block
decode(translated_block) == parse_lines(split_lines(translated_block), EmptyDict, -1, <<>>)

\* the texts of subs[k : k + batch_size]
Batch(texts, k) ==
    SubSeq(texts, k + 1, IF k + batch_size < Len(texts) THEN k + batch_size ELSE Len(texts))

\* "\n".join(f"{j}_> {sub.text}" for j, sub in enumerate(batch))
encode(batch) ==
    join(<<"\n">>, [n \in 1..Len(batch) |-> Str(n - 1) \o <<"_", ">", " ">> \o batch[n]])

\* only a mapping with too few entries is refused
integrity_ok_mutant(dict, batch) == Cardinality(DOMAIN dict) >= Len(batch)

\* the integrity check: len(translated_lines_dict) == len(batch)
integrity_ok(dict, batch) == Cardinality(DOMAIN dict) = Len(batch)

\* sub.text = translated_lines_dict.get(j, sub.text) for every entry of the batch
reassemble(dict, batch) ==
    [n \in 1..Len(batch) |-> IF (n - 1) \in DOMAIN dict THEN dict[n - 1] ELSE batch[n]]

\* the new texts written one entry too far
WithBatch_shifted(texts, k, new) ==
    [n \in 1..Len(texts) |->
        IF n > k + 1 /\ n <= k + 1 + Len(new) THEN new[n - k - 1] ELSE texts[n]]

\* texts with the batch at k replaced by new
WithBatch(texts, k, new) ==
    [n \in 1..Len(texts) |->
        IF n > k /\ n <= k + Len(new) THEN new[n - k] ELSE texts[n]]

\* the break forgotten: the loop goes on to the next engine
after_success_mutant(e) ==
    IF e + 1 < Len(translation_engines) THEN "engines" ELSE "sleep"

\* where the run is after engine e (0-based) succeeded: break, then the
\* fallback is skipped
after_success(e) == "sleep"

\* the fallback forgotten: after the last engine the batch is left as it is
after_failure_without_fallback(e) ==
    IF e + 1 < Len(translation_engines) THEN "engines" ELSE "sleep"

\* where the run is after engine e (0-based) failed: the next engine, or, after
\* the last one, the fallback (batch_translated is still False)
after_failure(e) ==
    IF e + 1 < Len(translation_engines) THEN "engines" ELSE "fallback"

\* the text is lost when the call raises
entry_text_mutant(old, raised, returned) == IF raised THEN <<>> ELSE returned

\* sub.text after the try of the fallback: assigned only when the call returns
entry_text(old, raised, returned) == IF raised THEN old ELSE returned

----------------------------------------------------------------------------
(* The subtitle files and the answers of the translation engines *)

EntryTexts == {<<"a">>, <<"b", "\n", "c">>, <<"b", "\n", "7", "-", "x">>}

SubtitleFiles == UNION {[1..n -> EntryTexts] : n \in 0..MaxSubs}

\* a translation of the text t
Translated(t) == <<"T">> \o t

\* the lines "k. text" for the numbers idx and the texts
NumberedDot(idx, texts) ==
    join(<<"\n">>, [n \in 1..Len(texts) |-> Str(idx[n]) \o <<".", " ">> \o texts[n]])

\* the decimal digits of n >= 0 in the script of row b of DigitBlocks
RECURSIVE DigitsIn(_, _)
DigitsIn(b, n) == IF n < 10 THEN <<DigitBlocks[b][n + 1]>>
                  ELSE DigitsIn(b, n \div 10) \o <<DigitBlocks[b][(n % 10) + 1]>>

\* the row of the Arabic-Indic digits U+0660..U+0669
ArabicIndic == CHOOSE b \in 1..Len(DigitBlocks) : DigitBlocks[b][1] = "U+0660"

\* the lines "k. text" with the numbers written in Arabic-Indic digits
NumberedLocal(idx, texts) ==
    join(<<"\n">>, [n \in 1..Len(texts) |->
                       DigitsIn(ArabicIndic, idx[n]) \o <<".", " ">> \o texts[n]])

\* what an engine may return for the payload of a batch: the payload itself,
\* a translation renumbered "k. text", that translation with a preamble, with
\* its last line missing, with a line too many, with all lines numbered 0,
\* with its last line numbered 3 too high, and with the numbers written in
\* the digits of the target language
Responses(payload, batch) ==
    LET n    == Len(batch)
        tr   == [k \in 1..n |-> Translated(batch[k])]
        good == NumberedDot(Indices(n), tr)
    IN {payload,
        good,
        <<"O", "K", ":", "\n">> \o good,
        NumberedDot(Indices(n - 1), SubSeq(tr, 1, n - 1)),
        NumberedDot(Indices(n + 1), Append(tr, <<"z">>)),
        NumberedDot([k \in 1..n |-> 0], tr),
        NumberedDot([k \in 1..n |-> IF k = n THEN n + 2 ELSE k - 1], tr),
        NumberedLocal(Indices(n), tr)}

\* what the engine may return for one entry
EntryResponses(text) == {Translated(text)}

BatchCall(e, result, block) ==
    [kind |-> "batch", engine |-> translation_engines[e + 1], j |-> -1,
     sent |-> text_to_translate, result |-> result, block |-> block]

EntryCall(text, result, block) ==
    [kind |-> "entry", engine |-> fallback_engine, j |-> sub_index,
     sent |-> text, result |-> result, block |-> block]

\* the times of the n entries read by pysrt.open, in milliseconds
EntryTimes(n) == [k \in 1..n |-> [start |-> k * 1000, end |-> k * 1000 + 800]]

\* the state at the call of the function: nothing is read yet
InitTranslate ==
    /\ prog = "translate"
    /\ pc = "exists"
    /\ subs = <<>>
    /\ orig = <<>>
    /\ i = 0
    /\ text_to_translate = <<>>
    /\ engine = 0
    /\ batch_translated = FALSE
    /\ sub_index = 0
    /\ calls = <<>>
    /\ saved = <<>>
    /\ events = <<>>
    /\ sub_times = <<>>
    /\ FilesIdle
    /\ FormatIdle
    /\ DecoderIdle
    /\ ParagraphsIdle
    /\ all_words = <<>>
    /\ line_buffer = <<>>
    /\ srt_content = <<>>
    /\ srt_counter = 1
    /\ sentence_buffer = <<>>
    /\ sentences = <<>>
    /\ run_buffer = <<>>
    /\ runs = <<>>

\* what the translation leaves alone
segRest == <<all_words, line_buffer, srt_content, srt_counter,
             sentence_buffer, sentences, run_buffer, runs,
             fileVars, fmtVars, decVars, parVars>>

\* an entry of the log of the run: the start of the batch at index b, a
\* translate call made for it, the delay after it
Event(kind, b) == [kind |-> kind, batch |-> b]

\* range(0, len(subs), batch_size): the index after k
range_skipping(k) == k + batch_size + 1

range_next(k) == k + batch_size

\* the number of time.sleep(0.2) calls at the end of an iteration only when
\* the batch was translated by an engine
inter_batch_delay_mutant(translated) == IF translated THEN 1 ELSE 0

\* the number of time.sleep(0.2) calls at the end of an iteration of the loop
\* over the batches, whatever the flag of the batch
inter_batch_delay(translated) == 1

trRest == <<i, text_to_translate, engine, batch_translated, sub_index, calls,
            saved, events>>

\* os.path.exists(input_file) is false: the error is printed and the function
\* returns
InputMissing ==
    /\ pc = "exists"
    /\ pc' = "missing"
    /\ UNCHANGED <<prog, subs, orig, sub_times, trRest, segRest>>

\* os.path.exists(input_file) is true
InputFound ==
    /\ pc = "exists"
    /\ pc' = "open"
    /\ UNCHANGED <<prog, subs, orig, sub_times, trRest, segRest>>

\* pysrt.open raises (the path is a directory, the file is not UTF-8): the
\* outer handler prints the error and the function returns
OpenRaises ==
    /\ pc = "open"
    /\ pc' = "open_failed"
    /\ UNCHANGED <<prog, subs, orig, sub_times, trRest, segRest>>

\* pysrt.open returns the entries of the file
OpenReturns ==
    /\ pc = "open"
    /\ \E file \in SubtitleFiles :
          /\ subs' = file
          /\ orig' = file
          /\ sub_times' = EntryTimes(Len(file))
    /\ pc' = "batch"
    /\ UNCHANGED <<prog, trRest, segRest>>

\* the head of the loop over the batches: the batch and its payload
BatchStart ==
    /\ pc = "batch"
    /\ i < Len(subs)
    /\ text_to_translate' = encode(Batch(subs, i))
    /\ batch_translated' = FALSE
    /\ engine' = 0
    /\ sub_index' = 0
    /\ calls' = <<>>
    /\ events' = Append(events, Event("batch", i))
    /\ pc' = "engines"
    /\ UNCHANGED <<prog, i, subs, orig, sub_times, saved, segRest>>

\* the call of the engine raises
EngineRaises ==
    /\ pc = "engines"
    /\ calls' = Append(calls, BatchCall(engine, "raised", <<>>))
    /\ events' = Append(events, Event("call", i))
    /\ pc' = after_failure(engine)
    /\ engine' = engine + 1
    /\ UNCHANGED <<prog, i, subs, orig, sub_times, text_to_translate, batch_translated,
                   sub_index, saved, segRest>>

\* the engine returns and the integrity check raises ValueError
EngineRejected ==
    /\ pc = "engines"
    /\ \E translated_block \in Responses(text_to_translate, Batch(subs, i)) :
          /\ ~integrity_ok(decode(translated_block), Batch(subs, i))
          /\ calls' = Append(calls, BatchCall(engine, "rejected", translated_block))
    /\ events' = Append(events, Event("call", i))
    /\ pc' = after_failure(engine)
    /\ engine' = engine + 1
    /\ UNCHANGED <<prog, i, subs, orig, sub_times, text_to_translate, batch_translated,
                   sub_index, saved, segRest>>

\* the engine returns, the integrity check passes, the batch is reassembled
EngineAccepted ==
    /\ pc = "engines"
    /\ \E translated_block \in Responses(text_to_translate, Batch(subs, i)) :
          /\ integrity_ok(decode(translated_block), Batch(subs, i))
          /\ subs' = WithBatch(subs, i, reassemble(decode(translated_block), Batch(subs, i)))
          /\ calls' = Append(calls, BatchCall(engine, "accepted", translated_block))
    /\ batch_translated' = TRUE
    /\ events' = Append(events, Event("call", i))
    /\ pc' = after_success(engine)
    /\ engine' = engine + 1
    /\ UNCHANGED <<prog, i, orig, sub_times, text_to_translate, sub_index, saved, segRest>>

\* one entry of the per-entry fallback
FallbackEntry ==
    /\ pc = "fallback"
    /\ sub_index < Len(Batch(subs, i))
    /\ LET text == subs[i + sub_index + 1]
       IN \/ /\ subs' = [subs EXCEPT ![i + sub_index + 1] = entry_text(text, TRUE, <<>>)]
             /\ calls' = Append(calls, EntryCall(text, "raised", <<>>))
          \/ \E r \in EntryResponses(text) :
                /\ subs' = [subs EXCEPT ![i + sub_index + 1] = entry_text(text, FALSE, r)]
                /\ calls' = Append(calls, EntryCall(text, "returned", r))
    /\ sub_index' = sub_index + 1
    /\ events' = Append(events, Event("call", i))
    /\ pc' = IF sub_index + 1 < Len(Batch(subs, i)) THEN "fallback" ELSE "sleep"
    /\ UNCHANGED <<prog, i, orig, sub_times, text_to_translate, engine, batch_translated,
                   saved, segRest>>

\* the progress bar and time.sleep(0.2), then the next batch
Sleep ==
    /\ pc = "sleep"
    /\ events' = events \o [k \in 1..inter_batch_delay(batch_translated) |-> Event("sleep", i)]
    /\ i' = range_next(i)
    /\ pc' = "batch"
    /\ UNCHANGED <<prog, subs, orig, sub_times, text_to_translate, engine, batch_translated,
                   sub_index, calls, saved, segRest>>

\* subs.save(output_file)
Save ==
    /\ pc = "batch"
    /\ i >= Len(subs)
    /\ saved' = subs
    /\ pc' = "done"
    /\ UNCHANGED <<prog, i, subs, orig, sub_times, text_to_translate, engine, batch_translated,
                   sub_index, calls, events, segRest>>

\* subs.save raises (the output path cannot be written): the outer handler
\* prints the error and the function returns with nothing saved
SaveRaises ==
    /\ pc = "batch"
    /\ i >= Len(subs)
    /\ pc' = "save_failed"
    /\ UNCHANGED <<prog, subs, orig, sub_times, trRest, segRest>>

\* where the run waits in a blocking call: pysrt.open, ts.translate_text,
\* time.sleep, subs.save
InBlockingCall ==
    \/ pc \in {"open", "engines", "fallback", "sleep"}
    \/ (pc = "batch" /\ i >= Len(subs))

\* the process is interrupted while a blocking call runs: KeyboardInterrupt
\* and SystemExit are no Exception, so none of the handlers (lines 92, 101,
\* 121) catches them; the function is left at once and nothing is saved
Interrupted ==
    /\ InBlockingCall
    /\ pc' = "interrupted"
    /\ UNCHANGED <<prog, subs, orig, sub_times, trRest, segRest>>

NextTranslate ==
    \/ InputMissing
    \/ InputFound
    \/ OpenRaises
    \/ OpenReturns
    \/ BatchStart
    \/ EngineRaises
    \/ EngineRejected
    \/ EngineAccepted
    \/ FallbackEntry
    \/ Sleep
    \/ Save
    \/ SaveRaises
    \/ Interrupted

SpecTranslate == InitTranslate /\ [][NextTranslate]_vars

\* the function is one thread of blocking calls: while a step is possible the
\* next step is taken, every call returning or raising in the end
SpecTranslateFair == SpecTranslate /\ WF_vars(NextTranslate)

----------------------------------------------------------------------------
(* The loop over the files of a run: __main__ and, around the segmentation, *)
(* the body of transcribe_video_final and of transcribe_audio.              *)

\* the most paths on the command line
MaxFiles == 4

\* the values of the variables of the segmentation and of the translation
\* while another part of the program runs
SegmentationIdle ==
    /\ all_words = <<>>
    /\ line_buffer = <<>>
    /\ srt_content = <<>>
    /\ srt_counter = 1
    /\ sentence_buffer = <<>>
    /\ sentences = <<>>
    /\ run_buffer = <<>>
    /\ runs = <<>>

TranslationIdle ==
    /\ subs = <<>>
    /\ orig = <<>>
    /\ text_to_translate = <<>>
    /\ engine = 0
    /\ batch_translated = FALSE
    /\ sub_index = 0
    /\ calls = <<>>
    /\ saved = <<>>
    /\ events = <<>>
    /\ sub_times = <<>>

\* the name NamedTemporaryFile gives the scratch audio file
TempName == "tmp.wav"

\* if temp_audio_path and os.path.exists(temp_audio_path):
\*     os.remove(temp_audio_path)
\* whether the scratch file exists afterwards
remove_if_exists(path, exists) ==
    IF path # "None" /\ exists THEN FALSE ELSE exists

\* what a call may raise: an Exception, or a BaseException that is none
\* (KeyboardInterrupt, SystemExit)
ExceptionKinds == {"Exception", "BaseException"}

\* whether "except Exception" catches it
caught(kind) == kind = "Exception"

\* whether an exception raised in the transcription block leaves the
\* function: transcribe_audio has "except Exception" and returns,
\* transcribe_video_final has only "finally"
propagates(script, kind) == script = "video" \/ ~caught(kind)

\* an exception leaves the function and, no handler being in the main loop,
\* ends the script
Propagate(outcome) ==
    /\ outcomes' = Append(outcomes, outcome)
    /\ pc' = "crashed"
    /\ UNCHANGED <<i, temp_audio_path>>

InitFiles ==
    /\ prog \in {"video", "audio"}
    /\ pc = "load_model"
    /\ total_files \in 1..MaxFiles
    /\ i = 0
    /\ temp_audio_path = "None"
    /\ temp_exists = FALSE
    /\ outcomes = <<>>
    /\ SegmentationIdle
    /\ TranslationIdle
    /\ FormatIdle
    /\ DecoderIdle
    /\ ParagraphsIdle

filesRest == <<all_words, line_buffer, srt_content, srt_counter,
               sentence_buffer, sentences, run_buffer, runs, trVars,
               fmtVars, decVars, parVars>>

\* the function returns: the main loop goes on to the next path
Return(outcome) ==
    /\ outcomes' = Append(outcomes, outcome)
    /\ temp_audio_path' = "None"
    /\ i' = i + 1
    /\ pc' = "main"

\* WhisperModel(...) raises: for an Exception the error is printed and
\* sys.exit(1) ends the run before the loop; any other exception ends it too
ModelLoadRaises ==
    /\ pc = "load_model"
    /\ pc' = "exited"
    /\ UNCHANGED <<prog, i, fileVars, filesRest>>

\* WhisperModel(...) returns the model
ModelLoaded ==
    /\ pc = "load_model"
    /\ pc' = "main"
    /\ UNCHANGED <<prog, i, fileVars, filesRest>>

\* the head of the main loop calls the function for path i
CallFunction ==
    /\ pc = "main"
    /\ i < total_files
    /\ pc' = "is_file"
    /\ UNCHANGED <<prog, i, fileVars, filesRest>>

\* the path is no file: the error is printed and the function returns
FileMissing ==
    /\ pc = "is_file"
    /\ Return("missing")
    /\ UNCHANGED <<prog, total_files, temp_exists, filesRest>>

\* the path is a file: the video script goes on to the extraction, the audio
\* script to the transcription
FileFound ==
    /\ pc = "is_file"
    /\ pc' = IF prog = "video" THEN "from_file" ELSE "transcribe"
    /\ temp_audio_path' = "None"
    /\ UNCHANGED <<prog, i, total_files, temp_exists, outcomes, filesRest>>

\* AudioSegment.from_file or NamedTemporaryFile raises: an Exception is
\* handled by the except block, which returns; a KeyboardInterrupt or
\* SystemExit passes it and leaves the function
ExtractionRaises ==
    /\ pc = "from_file"
    /\ \E kind \in ExceptionKinds :
          IF caught(kind)
          THEN /\ temp_exists' = remove_if_exists(temp_audio_path, temp_exists)
               /\ Return("from_file_failed")
          ELSE /\ Propagate("interrupted")
               /\ UNCHANGED temp_exists
    /\ UNCHANGED <<prog, total_files, filesRest>>

\* NamedTemporaryFile(delete=False) creates the scratch file
TempCreated ==
    /\ pc = "from_file"
    /\ temp_audio_path' = TempName
    /\ temp_exists' = TRUE
    /\ pc' = "export"
    /\ UNCHANGED <<prog, i, total_files, outcomes, filesRest>>

\* audio_segment.export raises: an Exception is handled by the except block,
\* which removes the scratch file and returns; a KeyboardInterrupt or
\* SystemExit passes it, and the try/finally of the transcription is not
\* entered yet, so the function is left with the scratch file (created with
\* delete=False) still there
ExportRaises ==
    /\ pc = "export"
    /\ \E kind \in ExceptionKinds :
          IF caught(kind)
          THEN /\ temp_exists' = remove_if_exists(temp_audio_path, temp_exists)
               /\ Return("export_failed")
          ELSE /\ Propagate("interrupted")
               /\ UNCHANGED temp_exists
    /\ UNCHANGED <<prog, total_files, filesRest>>

\* audio_segment.export returns
ExportReturns ==
    /\ pc = "export"
    /\ pc' = "transcribe"
    /\ UNCHANGED <<prog, i, fileVars, filesRest>>

\* an exception in the transcription block (model.transcribe, the iteration
\* of the segments, the segmentation): in the video script the finally block
\* runs and the exception leaves the function and the main loop; in the
\* audio script an Exception is caught and the function returns, and a
\* KeyboardInterrupt or SystemExit leaves the function and the main loop
TranscriptionRaises ==
    /\ pc = "transcribe"
    /\ \E kind \in ExceptionKinds :
          IF propagates(prog, kind)
          THEN /\ temp_exists' = IF prog = "video"
                                 THEN remove_if_exists(temp_audio_path, temp_exists)
                                 ELSE temp_exists
               /\ Propagate(IF caught(kind) THEN "exception" ELSE "interrupted")
          ELSE /\ Return("transcription_failed")
               /\ UNCHANGED temp_exists
    /\ UNCHANGED <<prog, total_files, filesRest>>

\* the audio script finds no word: the warning is printed and the function
\* returns from inside the transcription block
NoSpeechDetected ==
    /\ pc = "transcribe"
    /\ prog = "audio"
    /\ Return("no_speech")
    /\ UNCHANGED <<prog, total_files, temp_exists, filesRest>>

\* the transcription block ends without an exception, with or without text:
\* in the video script the finally block runs; the function goes on to the
\* test of the content
TranscriptionReturns ==
    /\ pc = "transcribe"
    /\ temp_exists' = IF prog = "video"
                      THEN remove_if_exists(temp_audio_path, temp_exists)
                      ELSE temp_exists
    /\ pc' = "output"
    /\ UNCHANGED <<prog, i, total_files, temp_audio_path, outcomes, filesRest>>

\* there is content and output_path.write_text returns: the file is saved
OutputSaved ==
    /\ pc = "output"
    /\ Return("saved")
    /\ UNCHANGED <<prog, total_files, temp_exists, filesRest>>

\* there is no content: the lack of output is reported
OutputEmpty ==
    /\ pc = "output"
    /\ Return("no_output")
    /\ UNCHANGED <<prog, total_files, temp_exists, filesRest>>

\* there is content and output_path.write_text raises: no handler encloses
\* the call in either script, so the exception, of whatever kind, leaves the
\* function and the main loop
OutputWriteRaises ==
    /\ pc = "output"
    /\ outcomes' = Append(outcomes, "write_failed")
    /\ pc' = "crashed"
    /\ UNCHANGED <<prog, i, total_files, temp_audio_path, temp_exists, filesRest>>

\* the main loop is over: "All files processed."
AllProcessed ==
    /\ pc = "main"
    /\ i = total_files
    /\ pc' = "done"
    /\ UNCHANGED <<prog, i, fileVars, filesRest>>

NextFiles ==
    \/ ModelLoadRaises
    \/ ModelLoaded
    \/ CallFunction
    \/ FileMissing
    \/ FileFound
    \/ ExtractionRaises
    \/ TempCreated
    \/ ExportRaises
    \/ ExportReturns
    \/ TranscriptionRaises
    \/ NoSpeechDetected
    \/ TranscriptionReturns
    \/ OutputSaved
    \/ OutputEmpty
    \/ OutputWriteRaises
    \/ AllProcessed

SpecFiles == InitFiles /\ [][NextFiles]_vars

----------------------------------------------------------------------------
(* format_timestamp as a function of its argument *)

\* how far the arguments lie from the times of TimestampBases
MaxDelta == 5

\* 0 s, 1 s, 1 min, 1 h, 3661.2 s, 100 h and two negative times
TimestampBases == {0, 1000, 60000, 3600000, 3661200, 360000000, -1000, -3600000}

TimestampInputs ==
    {base + d : base \in TimestampBases, d \in (0 - MaxDelta)..MaxDelta}

\* the digits of n without zero filling
pad_mutant(n, width) == Str(n)

\* f"{n:0{width}d}" for n >= 0: the digits of n, zero-filled to the width
pad(n, width) ==
    LET digits == Str(n)
    IN [k \in 1..(width - Len(digits)) |-> "0"] \o digits

\* f"{hours:02d}:{minutes:02d}:{seconds:02d},{milliseconds:03d}"
timestamp_text(t) ==
    pad(t.hours, 2) \o <<":">> \o pad(t.minutes, 2) \o <<":">>
        \o pad(t.seconds, 2) \o <<",">> \o pad(t.milliseconds, 3)

InitFormat ==
    /\ prog = "format"
    /\ pc = "call"
    /\ ts_in \in TimestampInputs
    /\ ts_out = <<>>
    /\ i = 0
    /\ SegmentationIdle
    /\ TranslationIdle
    /\ FilesIdle
    /\ ParagraphsIdle
    /\ DecoderIdle

\* assert seconds >= 0 fails: AssertionError
FormatRaises ==
    /\ pc = "call"
    /\ ~(ts_in >= 0)
    /\ pc' = "raised"
    /\ UNCHANGED <<prog, segVars, trVars, fileVars, fmtVars, decVars, parVars>>

\* the assertion holds and the string is returned
FormatReturns ==
    /\ pc = "call"
    /\ ts_in >= 0
    /\ ts_out' = timestamp_text(format_timestamp(ts_in))
    /\ pc' = "returned"
    /\ UNCHANGED <<prog, segVars, trVars, fileVars, ts_in, parVars, decVars>>

NextFormat == FormatRaises \/ FormatReturns

SpecFormat == InitFormat /\ [][NextFormat]_vars

----------------------------------------------------------------------------
(* The grouping of the sentences into paragraphs in transcribe_audio *)

\* the most sentences the sentence loop delivers
MaxSentences == 11

sentences_per_paragraph == 5

SentenceTexts == {<<"A", ".">>, <<"B">>}

\* the test with > in place of >=
closes_paragraph_mutant(k, cur) ==
    Len(cur) > sentences_per_paragraph \/ k = Len(sentences) - 1

\* len(current_paragraph) >= sentences_per_paragraph or i == len(sentences) - 1
\* for the sentence at index k and the buffer cur that holds it
closes_paragraph(k, cur) ==
    Len(cur) >= sentences_per_paragraph \/ k = Len(sentences) - 1

\* " ".join(current_paragraph)
Paragraph(cur) == join(<<" ">>, cur)

InitParagraphs ==
    /\ prog = "audio"
    /\ pc = "paragraphs"
    /\ \E n \in 1..MaxSentences : sentences \in [1..n -> SentenceTexts]
    /\ i = 0
    /\ current_paragraph = <<>>
    /\ paragraphs = <<>>
    /\ run_buffer = <<>>
    /\ runs = <<>>
    /\ all_words = <<>>
    /\ line_buffer = <<>>
    /\ srt_content = <<>>
    /\ srt_counter = 1
    /\ sentence_buffer = <<>>
    /\ TranslationIdle
    /\ FilesIdle
    /\ FormatIdle
    /\ DecoderIdle

parRest == <<prog, all_words, line_buffer, srt_content, srt_counter,
             sentence_buffer, sentences, trVars, fileVars, fmtVars, decVars>>

\* one iteration that closes the paragraph
ParagraphClose ==
    /\ pc = "paragraphs"
    /\ i < Len(sentences)
    /\ LET cur == Append(current_paragraph, sentences[i + 1])
       IN /\ closes_paragraph(i, cur)
          /\ paragraphs' = Append(paragraphs, Paragraph(cur))
          /\ current_paragraph' = <<>>
    /\ runs' = Append(runs, Append(run_buffer, i))
    /\ run_buffer' = <<>>
    /\ i' = i + 1
    /\ UNCHANGED <<pc, parRest>>

\* one iteration that keeps the sentence in the buffer
ParagraphKeep ==
    /\ pc = "paragraphs"
    /\ i < Len(sentences)
    /\ LET cur == Append(current_paragraph, sentences[i + 1])
       IN /\ ~closes_paragraph(i, cur)
          /\ current_paragraph' = cur
    /\ run_buffer' = Append(run_buffer, i)
    /\ i' = i + 1
    /\ UNCHANGED <<pc, paragraphs, runs, parRest>>

\* the loop is over
ParagraphsEnd ==
    /\ pc = "paragraphs"
    /\ i = Len(sentences)
    /\ pc' = "done"
    /\ UNCHANGED <<i, run_buffer, runs, parVars, parRest>>

NextParagraphs == ParagraphClose \/ ParagraphKeep \/ ParagraphsEnd

SpecParagraphs == InitParagraphs /\ [][NextParagraphs]_vars

----------------------------------------------------------------------------
(* One call of the transcription function from the collected words to the  *)
(* output: the segmentation loop, in the audio script the grouping into     *)
(* paragraphs, and the test that decides whether a file is written.         *)

\* the test taken as true for every content
has_output_mutant(content) == TRUE

\* "if srt_content:" and "if full_text:": the content is not empty
has_output(content) == content # <<>>

\* "\n\n".join(paragraphs)
full_text(pars) == join(<<"\n", "\n">>, pars)

\* the state after the words are collected: any stream, the empty one included
InitRun ==
    /\ prog \in {"video", "youtube", "audio"}
    /\ pc = "words"
    /\ (all_words = <<>> \/ IsWordStream(all_words))
    /\ i = 0
    /\ line_buffer = <<>>
    /\ srt_content = <<>>
    /\ srt_counter = 1
    /\ sentence_buffer = <<>>
    /\ sentences = <<>>
    /\ run_buffer = <<>>
    /\ runs = <<>>
    /\ TranslationIdle
    /\ FilesIdle
    /\ FormatIdle
    /\ DecoderIdle
    /\ ParagraphsIdle

\* the audio script finds no words: the warning is printed and the function
\* returns
NoSpeech ==
    /\ pc = "words"
    /\ prog = "audio"
    /\ all_words = <<>>
    /\ outcomes' = Append(outcomes, "no_speech")
    /\ pc' = "returned"
    /\ UNCHANGED <<prog, segVars, trVars, total_files, temp_audio_path,
                   temp_exists, fmtVars, decVars, parVars>>

\* the function goes on to the loop over the words; in the cue scripts
\* "if all_words:" skips the loop of an empty stream, which is then over at once
StartLoop ==
    /\ pc = "words"
    /\ (prog = "audio" => all_words # <<>>)
    /\ pc' = "loop"
    /\ UNCHANGED <<prog, segVars, trVars, fileVars, fmtVars, decVars, parVars>>

\* the audio script, after the loop over the words: "if sentences:" and the
\* start of the loop over the sentences
StartGrouping ==
    /\ pc = "done"
    /\ prog = "audio"
    /\ sentences # <<>>
    /\ paragraphs = <<>>
    /\ i' = 0
    /\ run_buffer' = <<>>
    /\ runs' = <<>>
    /\ pc' = "paragraphs"
    /\ UNCHANGED <<prog, all_words, line_buffer, srt_content, srt_counter,
                   sentence_buffer, sentences, trVars, fileVars, fmtVars, decVars, parVars>>

\* the content that the end of the function tests and writes
output_content == IF prog = "audio" THEN full_text(paragraphs) ELSE srt_content

\* the end of the function: the output file is written when there is content,
\* and the lack of output is reported when there is none
WriteOutput ==
    /\ pc = "done"
    /\ (prog = "audio" => (paragraphs # <<>> \/ sentences = <<>>))
    /\ outcomes' = Append(outcomes, IF has_output(output_content) THEN "saved" ELSE "no_output")
    /\ pc' = "returned"
    /\ UNCHANGED <<prog, segVars, trVars, total_files, temp_audio_path,
                   temp_exists, fmtVars, decVars, parVars>>

\* there is content and output_path.write_text raises (the output path is a
\* directory, the disk is full): no handler encloses the call, the exception
\* leaves the function, no file is written and nothing is reported
WriteRaises ==
    /\ pc = "done"
    /\ (prog = "audio" => (paragraphs # <<>> \/ sentences = <<>>))
    /\ has_output(output_content)
    /\ outcomes' = Append(outcomes, "write_failed")
    /\ pc' = "raised"
    /\ UNCHANGED <<prog, segVars, trVars, total_files, temp_audio_path,
                   temp_exists, fmtVars, decVars, parVars>>

NextRun ==
    \/ NoSpeech
    \/ StartLoop
    \/ (prog \in {"video", "youtube"} /\ NextCue)
    \/ (prog = "audio" /\ NextSentence)
    \/ StartGrouping
    \/ NextParagraphs
    \/ WriteOutput
    \/ WriteRaises

SpecRun == InitRun /\ [][NextRun]_vars

----------------------------------------------------------------------------
(* The decoder of translate_srt_file_resilient as a function of the response *)

\* the longest separator of an indexed line
MaxSeparator == 2

\* the most lines of a response
MaxLines == 3

SeparatorStrings == UNION {[1..n -> Separators] : n \in 1..MaxSeparator}

\* no space, a space, a line tabulation (U+000B)
OptionalSpace == {<<>>, <<" ">>, <<"">>}

\* the indices 0, 12 and 3, the last in Arabic-Indic digits
IndexDigits == {<<"0">>, <<"1", "2">>, <<"U+0663">>}

LineTexts == {<<"a">>, <<"x", " ", "y", " ">>}

\* the line: spaces, digits, spaces, separator, spaces, text
IndexedLine(s1, digits, s2, sep, s3, text) ==
    s1 \o digits \o s2 \o sep \o s3 \o text

IndexedLines ==
    {IndexedLine(s1, digits, s2, sep, s3, text) :
        s1 \in OptionalSpace, digits \in IndexDigits, s2 \in OptionalSpace,
        sep \in SeparatorStrings, s3 \in OptionalSpace, text \in LineTexts}

\* the lines "0. a", "1: b ", "0- e", " c", "d", the empty line and the line
\* "1. f" with the index written as the fullwidth digit one
ResponseLines ==
    {<<"0", ".", " ", "a">>, <<"1", ":", " ", "b", " ">>, <<"0", "-", " ", "e">>,
     <<" ", "c">>, <<"d">>, <<>>, <<"U+FF11", ".", " ", "f">>}

\* the responses of one to MaxLines of these lines
ResponseBlocks ==
    {join(<<"\n">>, ls) : ls \in UNION {[1..n -> ResponseLines] : n \in 1..MaxLines}}

InitDecode ==
    /\ prog = "decode"
    /\ pc = "split"
    /\ response_block \in IndexedLines \cup ResponseBlocks
    /\ translated_lines_dict = <<>>
    /\ i = 0
    /\ SegmentationIdle
    /\ TranslationIdle
    /\ FilesIdle
    /\ FormatIdle
    /\ ParagraphsIdle

\* the parsing loop over the lines of the response and the save after it
Decode ==
    /\ pc = "split"
    /\ translated_lines_dict' = decode(response_block)
    /\ pc' = "parsed"
    /\ UNCHANGED <<prog, segVars, trVars, fileVars, fmtVars, parVars, response_block>>

NextDecode == Decode

SpecDecode == InitDecode /\ [][NextDecode]_vars

----------------------------------------------------------------------------
(* Properties of the segmentation loops *)

CueMode == prog \in {"video", "youtube"}

\* the stripped texts of the words at the indices idxs, joined by one space
WordsText(idxs) ==
    join(<<" ">>, [n \in 1..Len(idxs) |-> strip(all_words[idxs[n] + 1].word)])

\* the last character of the stripped text of word k (0-based) is . ? or !
HasTerminalPunctuation(k) ==
    LET t == strip(all_words[k + 1].word)
    IN t # <<>> /\ t[Len(t)] \in {".", "?", "!"}

\* C1: in cue mode the cues are built from non-empty contiguous runs of words
\* which, followed by the buffered words, are exactly the words processed so
\* far, each once and in order; cue k carries number k and the joined text of
\* its run; the line buffer is empty once the last word is processed, and the
\* cue texts joined together are then the text of the whole stream.
C1_CuePartition ==
    CueMode =>
        /\ Len(srt_content) = Len(runs)
        /\ \A k \in 1..Len(runs) :
              /\ runs[k] # <<>>
              /\ srt_content[k].index = k
              /\ srt_content[k].text = WordsText(runs[k])
        /\ Flatten(runs) \o line_buffer = Indices(i)
        /\ (i = Len(all_words) => line_buffer = <<>>)
        /\ (i = Len(all_words) =>
              join(<<" ">>, [k \in 1..Len(srt_content) |-> srt_content[k].text])
                = WordsText(Indices(Len(all_words))))

\* a finished run of transcribe_video.py with several cues, one of several
\* words, whose last word has no terminal punctuation
C1_Witness ==
    /\ prog = "video"
    /\ pc = "done"
    /\ Len(srt_content) >= 2
    /\ \E k \in 1..Len(runs) : Len(runs[k]) >= 2
    /\ ~HasTerminalPunctuation(Len(all_words) - 1)

\* C8: in sentence mode the sentences are built from contiguous runs of words
\* which, followed by the buffered words, are exactly the words processed so
\* far, each once and in order; the sentence buffer holds the texts of the
\* words of the open run; it is empty once the last word is processed.
C8_SentencePartition ==
    prog = "audio" =>
        /\ Len(sentences) = Len(runs)
        /\ \A k \in 1..Len(runs) :
              /\ runs[k] # <<>>
              /\ sentences[k] =
                   strip(Flatten([n \in 1..Len(runs[k]) |-> all_words[runs[k][n] + 1].word]))
        /\ Flatten(runs) \o run_buffer = Indices(i)
        /\ sentence_buffer = [n \in 1..Len(run_buffer) |-> all_words[run_buffer[n] + 1].word]
        /\ (i = Len(all_words) => sentence_buffer = <<>>)

\* a finished run whose last word has no terminal punctuation and follows the
\* word before it without a pause, in a sentence of several words
C8_Witness ==
    /\ prog = "audio"
    /\ pc = "done"
    /\ Len(all_words) >= 3
    /\ ~HasTerminalPunctuation(Len(all_words) - 1)
    /\ Len(runs[Len(runs)]) >= 2
    /\ Len(sentences) >= 2

\* the time ranges of the cues: start <= end, and end <= start of the next cue
CueRangesOrdered ==
    \A k \in 1..Len(srt_content) :
        /\ TimecodeMs(srt_content[k].start_time) <= TimecodeMs(srt_content[k].end_time)
        /\ (k < Len(srt_content) =>
              TimecodeMs(srt_content[k].end_time)
                <= TimecodeMs(srt_content[k + 1].start_time))

\* no word starts before the word before it has ended
WordsDoNotOverlap ==
    \A k \in 1..(Len(all_words) - 1) : all_words[k].end <= all_words[k + 1].start

\* C9 as stated: for every stream with non-decreasing starts and end >= start
\* (every stream of IsWordStream), the cue ranges are ordered.
C9_Original == CueMode => CueRangesOrdered

\* C9 amended: when moreover no word starts before the word before it has
\* ended, each cue's start <= its end and each cue's end <= the next cue's start.
C9_CueRangesOrdered == (CueMode /\ WordsDoNotOverlap) => CueRangesOrdered

\* several cues of a stream without overlap, the first before the hour and the
\* last after it
C9_Witness ==
    /\ CueMode
    /\ pc = "done"
    /\ WordsDoNotOverlap
    /\ Len(srt_content) >= 3
    /\ srt_content[1].start_time.hours = 0
    /\ srt_content[Len(srt_content)].start_time.hours = 1

\* the current word is in the loop's hands, the buffer with it is longer than
\* max_chars, and one of the next up to 3 words ends in terminal punctuation
LookaheadCase ==
    /\ CueMode
    /\ pc = "loop"
    /\ i < Len(all_words)
    /\ Len(WordsText(Append(line_buffer, i))) > 45
    /\ \E j \in 1..3 : i + j <= Len(all_words) - 1 /\ HasTerminalPunctuation(i + j)

\* the step keeps the current word in the buffer and writes no cue
NotBrokenHere ==
    /\ line_buffer' = Append(line_buffer, i)
    /\ srt_content' = srt_content

\* the gap after word k (0-based), start of word k+1 minus end of word k as the
\* scripts compute it on the float times, is above the threshold of th ms
GapExceeds(k, th) ==
    float_gap_exceeds(all_words[k + 2].start, all_words[k + 1].end, th)

\* C10 as stated: in the lookahead case the cue is not broken at the current word.
C10_Original == [][LookaheadCase => NotBrokenHere]_vars

\* C10 amended: in the lookahead case, when the current word does not end in
\* terminal punctuation and the gap to the next word, computed on the float
\* times, is at most 0.8 s, the cue is not broken at the current word.
C10_LookaheadException ==
    [][(/\ LookaheadCase
        /\ ~HasTerminalPunctuation(i)
        /\ ~GapExceeds(i, 800))
       => NotBrokenHere]_vars

\* the word just processed was kept in a buffer longer than max_chars, with
\* terminal punctuation within the next 3 words; the next word starts 800 ms
\* after its end and the float difference of the two times is not above 0.8
C10_Witness ==
    /\ CueMode
    /\ pc = "loop"
    /\ line_buffer # <<>>
    /\ line_buffer[Len(line_buffer)] = i - 1
    /\ all_words[i + 1].start - all_words[i].end = 800
    /\ ~GapExceeds(i - 1, 800)
    /\ Len(WordsText(line_buffer)) > 45
    /\ \E j \in 1..3 : i - 1 + j <= Len(all_words) - 1 /\ HasTerminalPunctuation(i - 1 + j)

\* the words of the open unit: the line buffer or the sentence buffer
OpenRun == IF CueMode THEN line_buffer ELSE run_buffer

\* word k (0-based) is the last word of a closed unit
ClosesUnit(k) == \E r \in 1..Len(runs) : runs[r][Len(runs[r])] = k

\* word k (0-based) is the first word of a closed unit or of the open unit
StartsUnit(k) ==
    \/ \E r \in 1..Len(runs) : runs[r][1] = k
    \/ (OpenRun # <<>> /\ OpenRun[1] = k)

\* C11: in both modes every processed word whose stripped text ends with
\* '.', '?' or '!' is the last word of a closed unit, whatever the length of
\* the buffer, the gap to the next word and the words ahead.
C11_PunctuationPriority ==
    \A k \in 0..(i - 1) : HasTerminalPunctuation(k) => ClosesUnit(k)

\* a word ending in '?' or '!' that is not the last word closed a unit of one
\* word although the next word follows without a pause
C11_Witness ==
    /\ pc = "done"
    /\ Len(all_words) >= 3
    /\ \E k \in 0..(Len(all_words) - 2) :
          /\ HasTerminalPunctuation(k)
          /\ all_words[k + 1].word[Len(all_words[k + 1].word)] \in {"?", "!"}
          /\ all_words[k + 2].start - all_words[k + 1].end <= 700
          /\ ClosesUnit(k)
          /\ StartsUnit(k)

\* the pause threshold of the running script, in milliseconds
PauseThreshold == IF CueMode THEN 800 ELSE 700

\* C12: in both modes, when the gap between a processed word and the next
\* word, start minus end computed on the float times, exceeds the threshold
\* (0.7 s in sentence mode, 0.8 s in cue mode), the earlier word is the last
\* word of its unit and, once processed, the next word is the first word of a
\* unit.
C12_PauseBreak ==
    \A k \in 0..(i - 1) :
        (k + 1 < Len(all_words) /\ GapExceeds(k, PauseThreshold))
        => /\ ClosesUnit(k)
           /\ (k + 1 < i => StartsUnit(k + 1))

\* in cue mode a pause closed a cue at a word without terminal punctuation
\* while the buffer was short, and the next word started a unit; the two times
\* are 800 ms apart and their float difference is above 0.8
C12_Witness ==
    /\ CueMode
    /\ \E k \in 0..(i - 2) :
          /\ all_words[k + 2].start - all_words[k + 1].end = 800
          /\ GapExceeds(k, 800)
          /\ ~HasTerminalPunctuation(k)
          /\ ClosesUnit(k)
          /\ StartsUnit(k + 1)
          /\ \E r \in 1..Len(runs) :
                runs[r][Len(runs[r])] = k /\ Len(WordsText(runs[r])) <= 45

\* C13: in both modes, once the last word is processed it is the last word of
\* the last closed unit and no word is left in a buffer; in cue mode the last
\* cue ends at the end of the last word.
C13_ForcedClosure ==
    i = Len(all_words) =>
        /\ runs # <<>>
        /\ runs[Len(runs)][Len(runs[Len(runs)])] = Len(all_words) - 1
        /\ OpenRun = <<>>
        /\ sentence_buffer = <<>>
        /\ (CueMode =>
              /\ Len(srt_content) = Len(runs)
              /\ TimecodeMs(srt_content[Len(srt_content)].end_time)
                   = all_words[Len(all_words)].end)
        /\ (~CueMode => Len(sentences) = Len(runs))

\* a finished run of either script whose last word has no terminal
\* punctuation, follows the word before it without a pause and closes a short
\* unit of several words
C13_Witness ==
    /\ pc = "done"
    /\ Len(all_words) >= 2
    /\ ~HasTerminalPunctuation(Len(all_words) - 1)
    /\ all_words[Len(all_words)].start - all_words[Len(all_words) - 1].end <= 700
    /\ Len(runs[Len(runs)]) >= 2
    /\ Len(WordsText(runs[Len(runs)])) <= 45

\* the sentences "Hello world." and "Next sentence"
HelloWorldSentences ==
    <<<<"H", "e", "l", "l", "o", " ", "w", "o", "r", "l", "d", ".">>,
      <<"N", "e", "x", "t", " ", "s", "e", "n", "t", "e", "n", "c", "e">>>>

\* C14 as stated: sentence mode turns the stream (Hello, 0, 0.4),
\* (world., 0.5, 0.9), (Next, 2.0, 2.3), (sentence, 2.3, 2.6) into exactly the
\* two sentences "Hello world." and "Next sentence".
C14_Original ==
    (prog = "audio" /\ all_words = HelloWorldStream(BareTexts) /\ pc = "done")
        => sentences = HelloWorldSentences

\* C14: sentence mode turns the stream of the words " Hello", " world.",
\* " Next", " sentence", each carrying its leading space, with the times
\* (0, 0.4), (0.5, 0.9), (2.0, 2.3), (2.3, 2.6) into exactly the two
\* sentences "Hello world." and "Next sentence", in that order.
C14_SpacedScenario ==
    (prog = "audio" /\ all_words = HelloWorldStream(SpacedTexts) /\ pc = "done")
        => sentences = HelloWorldSentences

\* the run over the stream of spaced words is finished: the first sentence
\* was closed at "world." and the second at the last word
C14_Witness ==
    /\ prog = "audio"
    /\ all_words = HelloWorldStream(SpacedTexts)
    /\ pc = "done"
    /\ runs = <<<<0, 1>>, <<2, 3>>>>
    /\ Len(sentences) = 2

\* the four conditions of the cue break rule for word k (0-based), whose
\* buffer holds the words idxs, word k included
EndsInPunctuation(k) == HasTerminalPunctuation(k)

PauseAfter(k) ==
    /\ k < Len(all_words) - 1
    /\ GapExceeds(k, 800)

LongWithoutPunctuationAhead(k, idxs) ==
    /\ Len(WordsText(idxs)) > 45
    /\ \A j \in 1..3 : k + j <= Len(all_words) - 1 => ~HasTerminalPunctuation(k + j)

LastOfStream(k) == k = Len(all_words) - 1

\* the step writes a cue that ends at the current word
BrokenHere ==
    /\ srt_content' = Append(srt_content, Cue(Append(line_buffer, i)))
    /\ line_buffer' = <<>>

\* C23: in cue mode the step for word i writes a cue ending at word i if and
\* only if word i ends in terminal punctuation, or is not the last word and is
\* followed by a gap that is above 0.8 s on the float times, or the joined
\* text of the buffer is longer
\* than 45 characters and none of the next up to 3 words ends in terminal
\* punctuation, or word i is the last word; otherwise the word stays in the
\* buffer and no cue is written.
C23_ExactBreakRule ==
    [][(CueMode /\ pc = "loop" /\ i < Len(all_words)) =>
         IF \/ EndsInPunctuation(i)
            \/ PauseAfter(i)
            \/ LongWithoutPunctuationAhead(i, Append(line_buffer, i))
            \/ LastOfStream(i)
         THEN BrokenHere
         ELSE NotBrokenHere]_vars

\* a cue was closed by the length condition alone, and an earlier word with
\* a long buffer stayed in the buffer because punctuation lay ahead
C23_Witness ==
    /\ CueMode
    /\ \E r \in 1..Len(runs) :
          LET k == runs[r][Len(runs[r])]
          IN /\ ~EndsInPunctuation(k)
             /\ ~PauseAfter(k)
             /\ ~LastOfStream(k)
             /\ LongWithoutPunctuationAhead(k, runs[r])
    /\ \E r \in 1..Len(runs) :
          /\ Len(runs[r]) >= 2
          /\ Len(WordsText(SubSeq(runs[r], 1, Len(runs[r]) - 1))) > 45

\* the lookahead of a copy of the cue loop: the explicit loop over j of
\* transcribe_video.py, or the slice of youtube_download.py and of the copy in
\* translate_srt.py
LookaheadOf(copy, k) ==
    IF copy = "explicit" THEN found_punctuation_ahead(k)
    ELSE any_punctuation_in_slice(k)

\* whether the copy writes a cue at word k with the buffer buf
BreaksIn(copy, k, buf) ==
    \/ k = Len(all_words) - 1
    \/ endswith(strip(Word(k).word))
    \/ (k < Len(all_words) - 1 /\ GapExceeds(k, 800))
    \/ (Len(BufferText(buf)) > 45 /\ ~LookaheadOf(copy, k))

\* the cues the copy emits for the words from k on, with the buffer buf and
\* the cues emitted before
RECURSIVE CuesOf(_, _, _, _)
CuesOf(copy, k, buf, cues) ==
    IF k >= Len(all_words) THEN cues
    ELSE LET b == Append(buf, k)
         IN IF BreaksIn(copy, k, b)
            THEN CuesOf(copy, k + 1, <<>>,
                        Append(cues, [index |-> Len(cues) + 1,
                                      start_time |-> format_timestamp(Word(b[1]).start),
                                      end_time |-> format_timestamp(Word(b[Len(b)]).end),
                                      text |-> BufferText(b)]))
            ELSE CuesOf(copy, k + 1, b, cues)

\* C26: for every word stream the cues written by a run of either cue script
\* are the cues that the copy with the explicit lookahead loop and the copies
\* with the slice emit for that stream: the same cues with the same numbers,
\* time ranges and texts, also when fewer than 3 words follow the current word.
C26_CopiesEquivalent ==
    (CueMode /\ pc = "done") =>
        /\ srt_content = CuesOf("explicit", 0, <<>>, <<>>)
        /\ srt_content = CuesOf("slice", 0, <<>>, <<>>)

\* a finished run of the slice copy in which a word with a long buffer and
\* fewer than 3 words after it stayed in the buffer, the punctuation ahead
\* being the last word
C26_Witness ==
    /\ prog = "youtube"
    /\ pc = "done"
    /\ HasTerminalPunctuation(Len(all_words) - 1)
    /\ \E r \in 1..Len(runs) : \E n \in 1..(Len(runs[r]) - 1) :
          /\ Len(WordsText(SubSeq(runs[r], 1, n))) > 45
          /\ runs[r][n] > Len(all_words) - 4
          /\ runs[r][Len(runs[r])] = Len(all_words) - 1

----------------------------------------------------------------------------
(* Properties of the loop over the files *)

\* the run is outside the function: before the first call, between two
\* calls, finished, or ended by an exception
FunctionLeft == pc \in {"load_model", "exited", "main", "done", "crashed"}

\* C15: in a run over several files, in both scripts, a missing file, a failed
\* extraction or an exception during transcription never ends the run: the
\* run is never ended by an exception of the transcription block, and when
\* it is over the function has been left once for every path.
C15_Isolation ==
    /\ (pc = "crashed" => outcomes[Len(outcomes)] # "exception")
    /\ (pc = "done" => Len(outcomes) = total_files)

\* C16: whenever transcribe_video_final has been left, after a failed
\* extraction, an exception during transcription, an empty result or a
\* success, the scratch audio file does not exist; it exists only between its
\* creation and the end of the transcription block.
C16_TempReleased ==
    /\ (FunctionLeft => ~temp_exists)
    /\ (temp_exists => prog = "video" /\ pc \in {"export", "transcribe"})

----------------------------------------------------------------------------
(* Properties of format_timestamp *)

\* the characters of s from position a to position b are decimal digits
AreDigits(s, a, b) == \A k \in a..b : IsDigit(s[k])

\* s reads H..H:MM:SS,mmm with at least two digits of hours, none of them a
\* superfluous leading zero, and its fields add up to T milliseconds
ReadsAs(s, T) ==
    LET n == Len(s)
    IN /\ n >= 12
       /\ s[n - 3] = ","
       /\ s[n - 6] = ":"
       /\ s[n - 9] = ":"
       /\ AreDigits(s, 1, n - 10)
       /\ AreDigits(s, n - 8, n - 7)
       /\ AreDigits(s, n - 5, n - 4)
       /\ AreDigits(s, n - 2, n)
       /\ (n > 12 => s[1] # "0")
       /\ LET hours   == int(SubSeq(s, 1, n - 10))
              minutes == int(SubSeq(s, n - 8, n - 7))
              seconds == int(SubSeq(s, n - 5, n - 4))
              mmm     == int(SubSeq(s, n - 2, n))
          IN /\ minutes < 60
             /\ seconds < 60
             /\ mmm < 1000
             /\ hours * 3600000 + minutes * 60000 + seconds * 1000 + mmm = T

\* C19: format_timestamp raises for every negative argument and returns for no
\* negative one; for a non-negative whole number T of milliseconds it returns
\* HH:MM:SS,mmm, hours of two digits or more, whose fields add up to T with
\* minutes < 60, seconds < 60 and mmm < 1000; 0 gives 00:00:00,000 and
\* 3661.2 s gives 01:01:01,200.
C19_TimecodeFormat ==
    prog = "format" =>
        /\ (pc = "raised" => ts_in < 0)
        /\ (pc = "returned" =>
              /\ ts_in >= 0
              /\ ReadsAs(ts_out, ts_in)
              /\ (ts_in = 0 => ts_out = <<"0", "0", ":", "0", "0", ":", "0", "0", ",", "0", "0", "0">>)
              /\ (ts_in = 3661200 => ts_out = <<"0", "1", ":", "0", "1", ":", "0", "1", ",", "2", "0", "0">>))

\* the call for 3661.2 s has returned
C19_Witness ==
    /\ prog = "format"
    /\ pc = "returned"
    /\ ts_in = 3661200
    /\ ts_out = <<"0", "1", ":", "0", "1", ":", "0", "1", ",", "2", "0", "0">>

----------------------------------------------------------------------------
(* Properties of the paragraph grouping *)

\* C20: the closed paragraphs followed by the buffer hold the sentences
\* processed so far, each once and in order; paragraph k is the sentences of
\* its group joined by a space; every closed paragraph but the last has
\* exactly 5 sentences; the last has 5 while sentences remain and between 1
\* and 5 once the last sentence is processed, when the buffer is empty.
C20_ParagraphGrouping ==
    (prog = "audio" /\ pc \in {"paragraphs", "done"}) =>
        /\ Flatten(runs) \o run_buffer = Indices(i)
        /\ current_paragraph = [n \in 1..Len(run_buffer) |-> sentences[run_buffer[n] + 1]]
        /\ Len(paragraphs) = Len(runs)
        /\ \A k \in 1..Len(runs) :
              /\ paragraphs[k] =
                   join(<<" ">>, [n \in 1..Len(runs[k]) |-> sentences[runs[k][n] + 1]])
              /\ Len(runs[k]) >= 1
              /\ Len(runs[k]) <= 5
              /\ ((k < Len(runs) \/ i < Len(sentences)) => Len(runs[k]) = 5)
        /\ Len(run_buffer) < 5
        /\ (i = Len(sentences) => run_buffer = <<>> /\ runs # <<>>)

\* eleven sentences grouped into paragraphs of 5, 5 and 1
C20_Witness ==
    /\ prog = "audio"
    /\ pc = "done"
    /\ Len(sentences) = 11
    /\ Len(paragraphs) = 3
    /\ Len(runs[1]) = 5
    /\ Len(runs[2]) = 5
    /\ runs[3] = <<10>>

----------------------------------------------------------------------------
(* Properties of one call of the transcription function *)

\* C21: for an empty word stream no cue, no sentence and no paragraph is ever
\* produced, the function returns normally, and when it has returned no
\* output file was written: the cue scripts report the lack of output, the
\* audio script the lack of speech.
C21_EmptySpeech ==
    all_words = <<>> =>
        /\ srt_content = <<>>
        /\ sentences = <<>>
        /\ paragraphs = <<>>
        /\ pc \in {"words", "loop", "done", "returned"}
        /\ (pc = "returned" =>
              outcomes = <<IF prog = "audio" THEN "no_speech" ELSE "no_output">>)
        /\ (pc # "returned" => outcomes = <<>>)

\* the video script has returned for an empty stream without writing a file
C21_Witness ==
    /\ prog = "video"
    /\ all_words = <<>>
    /\ pc = "returned"
    /\ srt_counter = 1
    /\ outcomes = <<"no_output">>

----------------------------------------------------------------------------
(* Properties of the decoder *)

Parsed == prog = "decode" /\ pc = "parsed"

\* C22: a response of one line made of optional spaces, digits k, optional
\* spaces, a separator of one or more of the characters _ > . : -, optional
\* spaces and a text T decodes to the mapping that holds under k exactly the
\* trimmed T, and nothing else.
C22_SeparatorHandling ==
    Parsed =>
        \A s1 \in OptionalSpace, digits \in IndexDigits, s2 \in OptionalSpace,
           sep \in SeparatorStrings, s3 \in OptionalSpace, text \in LineTexts :
            response_block = IndexedLine(s1, digits, s2, sep, s3, text)
            => /\ DOMAIN translated_lines_dict = {int(digits)}
               /\ translated_lines_dict[int(digits)] = strip(text)

\* the positions of the lines that match the index pattern
MatchedPositions(lines) ==
    {p \in 1..Len(lines) : pattern_match(lines[p]).matched}

\* the position of the next matching line after p, or the end of the input
EntryEnd(lines, p) ==
    IF \E q \in MatchedPositions(lines) : q > p
    THEN CHOOSE q \in MatchedPositions(lines) :
            q > p /\ \A r \in MatchedPositions(lines) : r > p => q <= r
    ELSE Len(lines) + 1

\* the text of the entry opened at the matching line p: the rest of that line
\* and the lines up to the end of the entry, newline-joined and trimmed; the
\* lines are taken as they are, or each trimmed before it is joined
EntryText(lines, p, each_trimmed) ==
    LET first == pattern_match(lines[p]).group2
        rest  == [r \in 1..(EntryEnd(lines, p) - 1 - p) |-> lines[p + r]]
        all   == <<first>> \o rest
    IN strip(join(<<"\n">>,
                  [n \in 1..Len(all) |-> IF each_trimmed THEN strip(all[n]) ELSE all[n]]))

\* the mapping for the lines: under each index the text of the last entry
\* opened with that index
EntriesOf(lines, each_trimmed) ==
    LET index(p) == int(pattern_match(lines[p]).group1)
        keys     == {index(p) : p \in MatchedPositions(lines)}
        last(k)  == CHOOSE p \in MatchedPositions(lines) :
                       /\ index(p) = k
                       /\ \A q \in MatchedPositions(lines) : index(q) = k => q <= p
    IN [k \in keys |-> EntryText(lines, last(k), each_trimmed)]

\* C24 as stated: the mapping holds, for each matched index, the rest of the
\* matching line and the lines that follow it up to the next matching line or
\* the end of the input, newline-joined in order and trimmed as a whole;
\* lines before the first matching line belong to no entry.
C24_Original ==
    Parsed => translated_lines_dict = EntriesOf(split_lines(response_block), FALSE)

\* C24: the mapping holds, for each matched index, the rest of the matching
\* line and the lines that follow it up to the next matching line or the end
\* of the input, each trimmed, newline-joined in order, and trimmed as a
\* whole; lines before the first matching line belong to no entry.
C24_ContinuationLines ==
    Parsed => translated_lines_dict = EntriesOf(split_lines(response_block), TRUE)

\* the response "d", "0. a", " c": the first line belongs to no entry and the
\* indented third line continues entry 0
C24_Witness ==
    /\ Parsed
    /\ response_block = <<"d", "\n", "0", ".", " ", "a", "\n", " ", "c">>
    /\ DOMAIN translated_lines_dict = {0}
    /\ translated_lines_dict[0] = <<"a", "\n", "c">>

----------------------------------------------------------------------------
(* Properties of the batch translation *)

Translating == prog = "translate"

\* the source texts of the current batch
SourceBatch == Batch(orig, i)

IsBatchCall(c) == c.kind = "batch"

IsEntryCall(c) == c.kind = "entry"

Failed(c) == c.result \in {"raised", "rejected"}

BatchCalls == SelectSeq(calls, IsBatchCall)

EntryCalls == SelectSeq(calls, IsEntryCall)

\* C2: whenever an engine returns the payload unchanged, the decoded mapping
\* has exactly the keys 0..N-1 and its value at each j is entry j's source text.
C2_RoundTrip ==
    Translating =>
        \A k \in 1..Len(calls) :
            (IsBatchCall(calls[k]) /\ calls[k].result # "raised"
                /\ calls[k].block = encode(SourceBatch))
            => LET d == decode(calls[k].block)
               IN /\ DOMAIN d = 0..(Len(SourceBatch) - 1)
                  /\ \A j \in 0..(Len(SourceBatch) - 1) : d[j] = SourceBatch[j + 1]

\* C3: an engine attempt whose response decodes to a mapping with a number of
\* entries other than the batch size changes no text, does not mark the batch
\* translated, and leaves the run at the next engine or, after the last
\* engine, at the first entry of the per-entry fallback.
C3_IntegrityRejection ==
    [][(/\ Translating
        /\ pc = "engines"
        /\ Len(calls') = Len(calls) + 1
        /\ calls'[Len(calls')].result # "raised"
        /\ Cardinality(DOMAIN decode(calls'[Len(calls')].block)) # Len(SourceBatch))
       => (/\ subs' = subs
           /\ ~batch_translated'
           /\ calls'[Len(calls')].result = "rejected"
           /\ IF engine + 1 < Len(translation_engines)
              THEN pc' = "engines" /\ engine' = engine + 1
              ELSE pc' = "fallback" /\ sub_index' = 0)]_vars

\* both engines were refused, the first for too few entries and the second for
\* too many, and the fallback starts on the untouched batch
C3_Witness ==
    /\ Translating
    /\ pc = "fallback"
    /\ sub_index = 0
    /\ Len(calls) = 2
    /\ calls[1].result = "rejected"
    /\ Cardinality(DOMAIN decode(calls[1].block)) < Len(SourceBatch)
    /\ calls[2].result = "rejected"
    /\ Cardinality(DOMAIN decode(calls[2].block)) > Len(SourceBatch)
    /\ subs = orig

\* the per-entry calls made so far for the current batch
EntriesDone == IF pc = "sleep" THEN Len(SourceBatch) ELSE sub_index

FallbackSoFar ==
    (Translating /\ pc \in {"fallback", "sleep"} /\ ~batch_translated) =>
        /\ Len(BatchCalls) = Len(translation_engines)
        /\ \A k \in 1..Len(BatchCalls) : Failed(BatchCalls[k])
        /\ Len(EntryCalls) = EntriesDone
        /\ \A k \in 1..EntriesDone :
              /\ EntryCalls[k].j = k - 1
              /\ EntryCalls[k].sent = orig[i + k]
              /\ (EntryCalls[k].result = "raised" => subs[i + k] = orig[i + k])
              /\ (EntryCalls[k].result = "returned" => subs[i + k] = EntryCalls[k].block)
        /\ \A k \in (EntriesDone + 1)..Len(SourceBatch) : subs[i + k] = orig[i + k]

\* unless the process is interrupted, a step of the fallback goes on to the
\* next entry, and the step after the last entry to the next batch
FallbackGoesOn ==
    pc' # "interrupted" =>
        /\ (pc = "fallback" =>
              /\ sub_index' = sub_index + 1
              /\ pc' = IF sub_index + 1 < Len(SourceBatch) THEN "fallback" ELSE "sleep")
        /\ ((pc = "sleep" /\ ~batch_translated) =>
              /\ pc' = "batch"
              /\ i' = i + batch_size)

\* C4: when every engine has failed for a batch, the entries of the batch are
\* submitted one by one, each once, in order and with its source text,
\* whether or not the calls before it failed; an entry whose call raises keeps
\* its source text; after the last entry the run goes on to the next batch.
\* (The interruption of the process is no failure of a call: it ends the run.)
C4_FallbackExhaustion == [](Translating => FallbackSoFar) /\ [][Translating => FallbackGoesOn]_vars

\* a batch of two finished by the fallback, the first call raising and the
\* second returning
C4_Witness ==
    /\ Translating
    /\ pc = "sleep"
    /\ ~batch_translated
    /\ Len(EntryCalls) = 2
    /\ EntryCalls[1].result = "raised"
    /\ EntryCalls[2].result = "returned"
    /\ subs[i + 1] = orig[i + 1]
    /\ subs[i + 2] # orig[i + 2]

\* C5: for the current batch the batch-level calls go to the engines in list
\* order from the first, each after the failure of the one before it; after
\* an accepted response no further call is made and the fallback is not
\* entered; per-entry calls are made only after every engine has failed.
C5_EngineOrder ==
    (Translating /\ pc \in {"engines", "fallback", "sleep"}) =>
        /\ calls = BatchCalls \o EntryCalls
        /\ Len(BatchCalls) <= Len(translation_engines)
        /\ \A k \in 1..Len(BatchCalls) :
              /\ BatchCalls[k].engine = translation_engines[k]
              /\ (k < Len(BatchCalls) => Failed(BatchCalls[k]))
        /\ (pc = "engines" =>
              /\ Len(BatchCalls) = engine
              /\ EntryCalls = <<>>
              /\ \A k \in 1..Len(BatchCalls) : Failed(BatchCalls[k]))
        /\ ((pc = "fallback" \/ EntryCalls # <<>>) =>
              /\ Len(BatchCalls) = Len(translation_engines)
              /\ \A k \in 1..Len(BatchCalls) : Failed(BatchCalls[k]))
        /\ ((\E k \in 1..Len(BatchCalls) : BatchCalls[k].result = "accepted") =>
              /\ pc = "sleep"
              /\ batch_translated
              /\ EntryCalls = <<>>)

\* the first engine failed and the second was accepted
C5_Witness ==
    /\ Translating
    /\ pc = "sleep"
    /\ Len(calls) = 2
    /\ calls[1].engine = "google"
    /\ calls[1].result = "rejected"
    /\ calls[2].engine = "bing"
    /\ calls[2].result = "accepted"

\* an engine attempt replaces every text of the batch by the text decoded for
\* its index, or changes no text
AttemptIsAtomic ==
    (Translating /\ pc = "engines") =>
        \/ /\ batch_translated'
           /\ LET d == decode(calls'[Len(calls')].block)
              IN \A n \in 1..Len(SourceBatch) :
                    (n - 1) \in DOMAIN d /\ subs'[i + n] = d[n - 1]
        \/ /\ ~batch_translated'
           /\ subs' = subs

\* at an engine attempt and at the start of the fallback the batch holds its
\* source texts
SourceTextsAtAttempt ==
    (Translating /\ (pc = "engines" \/ (pc = "fallback" /\ sub_index = 0))) =>
        Batch(subs, i) = SourceBatch

\* C6: an engine attempt either succeeds and replaces the texts of the batch
\* entry for entry, or fails and leaves every text as it was; at every engine
\* attempt and at the start of the fallback the batch holds its source texts.
C6_BatchAtomicity == [][AttemptIsAtomic]_vars /\ []SourceTextsAtAttempt

\* C7: after a batch was accepted, no index 0..N-1 is missing from the decoded
\* mapping and every entry holds the text decoded for its index.
C7_NoMissingIndex ==
    (Translating /\ pc = "sleep" /\ batch_translated) =>
        LET d == decode(calls[Len(calls)].block)
        IN \A j \in 0..(Len(SourceBatch) - 1) :
              j \in DOMAIN d /\ subs[i + j + 1] = d[j]

\* the start indices of the batches started so far, in order
BatchStarts ==
    LET starts == SelectSeq(events, LAMBDA e : e.kind = "batch")
    IN [k \in 1..Len(starts) |-> starts[k].batch]

\* the start indices 0, batch_size, 2 * batch_size, ... below n
ExpectedStarts(n) ==
    [k \in 1..((n + batch_size - 1) \div batch_size) |-> (k - 1) * batch_size]

\* the number of translate calls made for the batch at index b
CallsOf(b) == Cardinality({p \in 1..Len(events) : events[p] = Event("call", b)})

\* the number of delays applied after the batch at index b
SleepsOf(b) == Cardinality({p \in 1..Len(events) : events[p] = Event("sleep", b)})

\* the input file has been read and the loop over the batches begins
RunBegins == Translating /\ pc = "batch" /\ i = 0 /\ events = <<>>

\* subs.save has been called, with every entry of the input, after every
\* batch was started exactly once in increasing order of its index
WriteOutReached ==
    /\ pc \in {"done", "save_failed"}
    /\ Len(subs) = Len(orig)
    /\ (pc = "done" => saved = subs)
    /\ BatchStarts = ExpectedStarts(Len(orig))

\* C17: every run of the translation over the entries read from the input,
\* whatever the engines and the per-entry calls do, eventually reaches the
\* write-out (the call of subs.save) with every batch started exactly once,
\* in increasing order of its index, unless the process is interrupted.
C17_Termination == RunBegins ~> (WriteOutReached \/ pc = "interrupted")

\* a finished run over three entries: both engines failed for both batches,
\* a per-entry call raised for the first entry and returned for the others
C17_Witness ==
    /\ pc = "done"
    /\ Len(orig) = 3
    /\ BatchStarts = <<0, 2>>
    /\ CallsOf(0) = 4
    /\ CallsOf(2) = 3
    /\ saved[1] = orig[1]
    /\ saved[2] # orig[2]
    /\ saved[3] # orig[3]

\* C18: the batches appear in the log of the run in increasing order, so every
\* call of a batch precedes every call of the next; the entry before the first
\* entry of a batch is the delay of the batch before it; a delay is the last
\* entry of its batch; every finished batch has exactly one delay and the
\* batch in progress has none.
C18_InterBatchDelay ==
    Translating =>
        /\ \A p \in 1..(Len(events) - 1) :
              /\ events[p].batch <= events[p + 1].batch
              /\ (events[p].batch < events[p + 1].batch => events[p].kind = "sleep")
              /\ (events[p].kind = "sleep" => events[p].batch < events[p + 1].batch)
        /\ \A k \in 1..Len(BatchStarts) :
              SleepsOf(BatchStarts[k]) = (IF BatchStarts[k] < i THEN 1 ELSE 0)
        /\ (pc \in {"engines", "fallback", "sleep"} =>
              /\ BatchStarts # <<>>
              /\ BatchStarts[Len(BatchStarts)] = i)
        /\ (pc = "sleep" => CallsOf(i) >= 1)

\* the first batch was finished by the per-entry fallback and the second by
\* the first engine, each followed by its delay
C18_Witness ==
    /\ pc = "done"
    /\ Len(events) = 9
    /\ CallsOf(0) = 4
    /\ events[6] = Event("sleep", 0)
    /\ events[7] = Event("batch", 2)
    /\ events[8] = Event("call", 2)
    /\ events[9] = Event("sleep", 2)

\* a step after the input was read changes no text outside the batch in
\* progress, and neither the number of entries nor their times
FrameStep ==
    pc \notin {"exists", "open"} =>
        /\ Len(subs') = Len(subs)
        /\ sub_times' = sub_times
        /\ orig' = orig
        /\ \A n \in 1..Len(subs) :
              subs'[n] # subs[n] =>
                  /\ pc \in {"engines", "fallback"}
                  /\ n > i
                  /\ n <= i + batch_size

\* what is written out has the entries of the input, with their times
WrittenAsRead ==
    (pc = "done" \/ (pc = "batch" /\ i >= Len(subs))) =>
        /\ Len(subs) = Len(orig)
        /\ sub_times = EntryTimes(Len(orig))
        /\ (pc = "done" => saved = subs)

\* C25: while a batch is processed only the texts of its own entries change,
\* the texts of the earlier and of the later batches stay as they are, and
\* the number of the entries, their order and their times are at the
\* write-out what they were in the input.
C25_Frame == [][Translating => FrameStep]_vars /\ [](Translating => WrittenAsRead)

\* the second batch has just been translated by an engine; the first batch
\* keeps the translation it got before
C25_Witness ==
    /\ Translating
    /\ pc = "sleep"
    /\ i = batch_size
    /\ batch_translated
    /\ Len(subs) > i
    /\ subs[1] # orig[1]
    /\ subs[i + 1] # orig[i + 1]
    /\ sub_times = EntryTimes(Len(orig))

\* C27: for the batch in progress, of N entries with E engines: no engine
\* has received more than one batch-level call; every batch-level call carried
\* the payload built from the source texts of the batch before the first
\* attempt; the per-entry calls all went to the engine 'google' and are at
\* most N; when the batch is finished they are none if an engine succeeded
\* and exactly N, after E failed batch-level calls, if none did; the calls of
\* the batch are never more than E + N.
C27_CallBudget ==
    (Translating /\ pc \in {"engines", "fallback", "sleep"}) =>
        LET N == Len(SourceBatch)
            E == Len(translation_engines)
        IN /\ \A k, l \in 1..Len(BatchCalls) :
                 k # l => BatchCalls[k].engine # BatchCalls[l].engine
           /\ text_to_translate = encode(SourceBatch)
           /\ \A k \in 1..Len(BatchCalls) : BatchCalls[k].sent = encode(SourceBatch)
           /\ \A k \in 1..Len(EntryCalls) : EntryCalls[k].engine = "google"
           /\ Len(EntryCalls) <= N
           /\ (pc = "sleep" =>
                 IF \E k \in 1..Len(BatchCalls) : BatchCalls[k].result = "accepted"
                 THEN EntryCalls = <<>>
                 ELSE Len(BatchCalls) = E /\ Len(EntryCalls) = N)
           /\ Len(calls) <= E + N

\* a batch of two entries finished with the full budget of calls: one to each
\* engine and one for each entry
C27_Witness ==
    /\ Translating
    /\ pc = "sleep"
    /\ Len(SourceBatch) = 2
    /\ Len(BatchCalls) = 2
    /\ BatchCalls[1].sent = BatchCalls[2].sent
    /\ Len(EntryCalls) = 2
    /\ Len(calls) = 4

====
